---- MODULE Spec2Model ----
(***************************************************************************)
(* A model of civsprite's binary .spr codec (sprite/format/spr.py) and of *)
(* the Sprite document object (sprite/objects.py).                         *)
(*                                                                         *)
(* Files are sequences of bytes.  Python integers are unbounded; every     *)
(* value that occurs here fits TLC's 32-bit integers.  An exception is     *)
(* modelled by its class name in the variable outcome.                     *)
(***************************************************************************)
EXTENDS Integers, Sequences, FiniteSets, TLC

VARIABLES
    pc,       \* position of the driver that calls the operations
    arg,      \* argument of the function under test
    ret,      \* value returned by the last function call
    disk,     \* the file at each path: File(bytes), or NoFile
    sprite,   \* the Sprite object held by the caller, or None
    heap,     \* the PIL Image objects alive: object id -> Image
    outcome,  \* "none", "ok" or the class name of the exception raised
    plan,     \* the layout from which the input file was laid out
    first     \* the Sprite and heap returned by the first load

vars == <<pc, arg, ret, disk, sprite, heap, outcome, plan, first>>

None == "None"

\* the path when no file is there, and when a file with the given bytes is
NoFile == [exists |-> FALSE, bytes |-> <<>>]
File(bytes) == [exists |-> TRUE, bytes |-> bytes]

\* the paths the caller passes: the file that is read and the one written
Paths == {"in", "out"}

----------------------------------------------------------------------------
(* Python integer operators on the values the codec uses.                  *)

Pow2(n) == 2 ^ n

\* x >> n (floor, also for negative x)
Shr(x, n) == x \div Pow2(n)

\* x << n
Shl(x, n) == x * Pow2(n)

\* x & (2^n - 1): two's complement masking, also for negative x
LowBits(x, n) == x % Pow2(n)

RECURSIVE BitOr(_, _)
\* a | b for non-negative a and b
BitOr(a, b) ==
    IF a = 0 THEN b
    ELSE IF b = 0 THEN a
    ELSE (IF a % 2 = 1 \/ b % 2 = 1 THEN 1 ELSE 0) + 2 * BitOr(a \div 2, b \div 2)

RECURSIVE BitAnd(_, _)
\* a & b for non-negative a and b
BitAnd(a, b) ==
    IF a = 0 \/ b = 0 THEN 0
    ELSE (IF a % 2 = 1 /\ b % 2 = 1 THEN 1 ELSE 0) + 2 * BitAnd(a \div 2, b \div 2)

\* bool(x) of an integer x, as an integer
Bool(x) == IF x = 0 THEN 0 ELSE 1

\* a Python bool used as an integer
Flag(b) == IF b THEN 1 ELSE 0

Max(a, b) == IF a >= b THEN a ELSE b

\* [x] * n, the empty list for n <= 0
Repeat(x, n) == [i \in 1..Max(n, 0) |-> x]

\* [x] * a * b: the list repeated a times, and that repeated b times
RepeatTwice(x, a, b) == Repeat(x, Max(a, 0) * Max(b, 0))

RECURSIVE Concat(_)
\* the concatenation of a sequence of sequences
Concat(ss) == IF ss = <<>> THEN <<>> ELSE Head(ss) \o Concat(Tail(ss))

----------------------------------------------------------------------------
(* struct: little-endian packing.                                          *)

\* struct.pack('<l', v)
PackL(v) == << v % 256, (v \div 256) % 256, (v \div 65536) % 256,
               (v \div 16777216) % 256 >>

\* struct.unpack('<l', b) for four bytes b
UnpackL(b) ==
    b[1] + 256 * b[2] + 65536 * b[3]
        + 16777216 * (IF b[4] >= 128 THEN b[4] - 256 ELSE b[4])

\* struct.pack('<H', v)
PackH(v) == << v % 256, (v \div 256) % 256 >>

\* struct.unpack('<H', b) for two bytes b
UnpackH(b) == b[1] + 256 * b[2]

\* struct.pack('<{n}l', *vs)
PackLs(vs) == Concat([i \in 1..Len(vs) |-> PackL(vs[i])])

\* struct.pack('<{n}H', *vs)
PackHs(vs) == Concat([i \in 1..Len(vs) |-> PackH(vs[i])])

\* struct.unpack('<{n}l', b) where Len(b) = 4 * n
UnpackLs(b) == [i \in 1..(Len(b) \div 4) |-> UnpackL(SubSeq(b, 4 * i - 3, 4 * i))]

\* struct.unpack('<{n}H', b) where Len(b) = 2 * n
UnpackHs(b) == [i \in 1..(Len(b) \div 2) |-> UnpackH(SubSeq(b, 2 * i - 1, 2 * i))]

\* file.read(n) at position pos: short at the end of the file
Read(file, pos, n) ==
    IF pos >= Len(file) \/ n <= 0 THEN <<>>
    ELSE SubSeq(file, pos + 1, IF pos + n > Len(file) THEN Len(file) ELSE pos + n)

\* file.seek(pos); file.write(bytes): the gap after the end is zero-filled
WriteAt(file, pos, bytes) ==
    LET end == IF bytes = <<>> THEN Len(file) ELSE Max(Len(file), pos + Len(bytes))
    IN [i \in 1..end |->
            IF i > pos /\ i <= pos + Len(bytes) THEN bytes[i - pos]
            ELSE IF i <= Len(file) THEN file[i]
            ELSE 0]

FILE_HEADER_SIZE == 12
IMAGE_HEADER_SIZE == 45
IMAGE_ROW_HEADER_SIZE == 8
TRAILER_SIZE == 10
BACKGROUND_BYTE == 253

----------------------------------------------------------------------------
(* Colour packing.                                                         *)

\* _rgbm_to_int(rgbm) without the top-5-bit truncation of the channels
rgbm_to_int_untruncated(rgbm) ==
    BitOr(BitOr(BitOr(Shl(Bool(rgbm[4]), 15), Shl(rgbm[1], 7)),
                Shl(rgbm[2], 2)),
          Shr(rgbm[3], 3))

\* _rgbm_to_int(rgbm)
rgbm_to_int(rgbm) ==
    BitOr(BitOr(BitOr(Shl(Bool(rgbm[4]), 15), Shl(Shr(rgbm[1], 3), 10)),
                Shl(Shr(rgbm[2], 3), 5)),
          Shr(rgbm[3], 3))

\* _int_to_rgbm(color)
int_to_rgbm(color) ==
    LET c == << LowBits(Shr(color, 10), 5), LowBits(Shr(color, 5), 5),
                LowBits(color, 5) >>
    IN << Shl(c[1], 3) + Shr(c[1], 2),
          Shl(c[2], 3) + Shr(c[2], 2),
          Shl(c[3], 3) + Shr(c[3], 2),
          Shr(color, 15) * 255 >>

----------------------------------------------------------------------------
(* Animation frame records.                                                *)

\* sprite.objects.Frame(image, transparency, start, loop, mirror, end, continuous)
Frame(image, transparency, start, loop, mirror, end, continuous) ==
    [image |-> image, transparency |-> transparency, start |-> start,
     loop |-> loop, mirror |-> mirror, end |-> end, continuous |-> continuous]

\* _int_to_frame(frame) reading the flags one bit too low
int_to_frame_shifted(frame) ==
    Frame(LowBits(frame, 10),
          LowBits(Shr(frame, 10), 3),
          LowBits(Shr(frame, 12), 1) = 1,
          LowBits(Shr(frame, 13), 1) = 1,
          LowBits(Shr(frame, 14), 1) = 1,
          LowBits(Shr(frame, 24), 1) = 1,
          LowBits(Shr(frame, 25), 1) = 1)

\* _int_to_frame(frame)
int_to_frame(frame) ==
    Frame(LowBits(frame, 10),
          LowBits(Shr(frame, 10), 3),
          LowBits(Shr(frame, 13), 1) = 1,
          LowBits(Shr(frame, 14), 1) = 1,
          LowBits(Shr(frame, 15), 1) = 1,
          LowBits(Shr(frame, 24), 1) = 1,
          LowBits(Shr(frame, 25), 1) = 1)

\* _frame_to_int(frame) that counts the images from 1
frame_to_int_one_based(frame) ==
    BitOr(BitOr(BitOr(BitOr(BitOr(BitOr(BitOr(
        LowBits(frame.image + 1, 10),
        Shl(LowBits(frame.transparency, 3), 10)),
        Shl(Flag(frame.start), 13)),
        Shl(Flag(frame.loop), 14)),
        Shl(Flag(frame.mirror), 15)),
        Shl(6, 16)),
        Shl(Flag(frame.end), 24)),
        Shl(Flag(frame.continuous), 25))

\* _frame_to_int(frame)
frame_to_int(frame) ==
    BitOr(BitOr(BitOr(BitOr(BitOr(BitOr(BitOr(
        LowBits(frame.image, 10),
        Shl(LowBits(frame.transparency, 3), 10)),
        Shl(Flag(frame.start), 13)),
        Shl(Flag(frame.loop), 14)),
        Shl(Flag(frame.mirror), 15)),
        Shl(6, 16)),
        Shl(Flag(frame.end), 24)),
        Shl(Flag(frame.continuous), 25))

----------------------------------------------------------------------------
(* PIL images: width, height and the pixels in row order, each pixel an   *)
(* (R, G, B, mask) tuple.                                                  *)

Image(width, height, data) == [width |-> width, height |-> height, data |-> data]

\* (255, 0, 255, 0): magenta without color mask
transparent == <<255, 0, 255, 0>>

\* the pixel at column x, row y (both counted from 0)
PixelAt(image, x, y) == image.data[y * image.width + x + 1]

\* a pixel of image.convert('RGB') that differs from the blank magenta image
RgbDiffers(p) == <<p[1], p[2], p[3]>> # <<255, 0, 255>>

Min(S) == CHOOSE m \in S : \A n \in S : m <= n
MaxOf(S) == CHOOSE m \in S : \A n \in S : m >= n

\* getbbox() returning None
NoBox == <<>>

\* getbbox() that returns the whole image, also for a blank difference
getbbox_whole(image) == <<0, 0, image.width, image.height>>

\* ImageChops.difference(image.convert('RGB'), blank_image).getbbox():
\* (left, top, right, bottom) of the pixels whose RGB differs, or None
getbbox(image) ==
    LET xs == {x \in 0..(image.width - 1) :
                  \E y \in 0..(image.height - 1) : RgbDiffers(PixelAt(image, x, y))}
        ys == {y \in 0..(image.height - 1) :
                  \E x \in 0..(image.width - 1) : RgbDiffers(PixelAt(image, x, y))}
    IN IF xs = {} THEN NoBox
       ELSE <<Min(xs), Min(ys), MaxOf(xs) + 1, MaxOf(ys) + 1>>

RECURSIVE SkipLeading(_, _, _)
\* the first loop of a row: skip leading transparent pixels
SkipLeading(row, first_pixel, bbox_width) ==
    IF first_pixel < bbox_width /\ row[first_pixel + 1] = transparent
    THEN SkipLeading(row, first_pixel + 1, bbox_width)
    ELSE first_pixel

\* the second loop of a row when it skips nothing
SkipTrailingNone(row, last_pixel, first_pixel) == last_pixel

RECURSIVE SkipTrailing(_, _, _)
\* the second loop of a row: skip trailing transparent pixels
SkipTrailing(row, last_pixel, first_pixel) ==
    IF last_pixel > first_pixel /\ row[last_pixel + 1] = transparent
    THEN SkipTrailing(row, last_pixel - 1, first_pixel)
    ELSE last_pixel

\* the body of the row loop of _image_object_to_sprite_image: the bytes of one row
EncodeRow(row, bbox_left, bbox_width) ==
    LET first_pixel == SkipLeading(row, 0, bbox_width)
        last_pixel == SkipTrailing(row, bbox_width - 1, first_pixel)
        empty_bytes == IF first_pixel # bbox_width THEN bbox_left + first_pixel ELSE 0
        row_data == IF first_pixel # bbox_width
                    THEN [i \in 1..(last_pixel - first_pixel + 1) |->
                             rgbm_to_int(row[first_pixel + i])]
                    ELSE <<>>
    IN PackLs(<<empty_bytes * 2, Len(row_data) * 2>>) \o PackHs(row_data)

\* IMAGE_HEADER_STRUCT.pack with the background byte of black, 0
PackImageHeaderBlackBackground(width, height, left, top, right, bottom, bgcolor, size) ==
    Repeat(0, 16) \o PackLs(<<width, height, left, top, right, bottom>>)
        \o <<0>> \o PackL(size)

\* IMAGE_HEADER_STRUCT.pack(width, height, left, top, right, bottom, bgcolor, size)
PackImageHeader(width, height, left, top, right, bottom, bgcolor, size) ==
    Repeat(0, 16) \o PackLs(<<width, height, left, top, right, bottom>>)
        \o <<bgcolor>> \o PackL(size)

\* _image_object_to_sprite_image(image) with a trailer of 8 bytes after a
\* length field that counts 10
image_object_to_sprite_image_short_trailer(image) ==
    LET bounding_box == getbbox(image)
        box == IF bounding_box = NoBox THEN <<0, 0, 0, 0>> ELSE bounding_box
        bbox_left == box[1]
        bbox_top == box[2]
        bbox_right == box[3]
        bbox_bottom == box[4]
        bbox_width == bbox_right - bbox_left
        \* image.crop(bounding_box): row y of the box
        CropRow(y) == [i \in 1..bbox_width |-> PixelAt(image, bbox_left + i - 1, y)]
        image_data ==
            IF bounding_box = NoBox THEN <<>>
            ELSE Concat([k \in 1..(bbox_bottom - bbox_top) |->
                            EncodeRow(CropRow(bbox_top + k - 1), bbox_left, bbox_width)])
    IN PackImageHeader(image.width, image.height,
                       bbox_left, bbox_top, bbox_right, bbox_bottom,
                       BACKGROUND_BYTE, Len(image_data) + TRAILER_SIZE)
           \o image_data \o Repeat(0, TRAILER_SIZE - 2)

\* _image_object_to_sprite_image(image)
image_object_to_sprite_image(image) ==
    LET bounding_box == getbbox(image)
        box == IF bounding_box = NoBox THEN <<0, 0, 0, 0>> ELSE bounding_box
        bbox_left == box[1]
        bbox_top == box[2]
        bbox_right == box[3]
        bbox_bottom == box[4]
        bbox_width == bbox_right - bbox_left
        \* image.crop(bounding_box): row y of the box
        CropRow(y) == [i \in 1..bbox_width |-> PixelAt(image, bbox_left + i - 1, y)]
        image_data ==
            IF bounding_box = NoBox THEN <<>>
            ELSE Concat([k \in 1..(bbox_bottom - bbox_top) |->
                            EncodeRow(CropRow(bbox_top + k - 1), bbox_left, bbox_width)])
    IN PackImageHeader(image.width, image.height,
                       bbox_left, bbox_top, bbox_right, bbox_bottom,
                       BACKGROUND_BYTE, Len(image_data) + TRAILER_SIZE)
           \o image_data \o Repeat(0, TRAILER_SIZE)

\* the background colour when the low 5 bits of the byte are taken for the
\* channel value and the high 3 bits for the R, G and B flags
BackgroundOfLowBits(bgcolor) ==
    LET bgchannel == LowBits(bgcolor, 5)
    IN int_to_rgbm(Shl(BitAnd(Shr(bgcolor, 5), 1) * bgchannel, 10)
                   + Shl(BitAnd(Shr(bgcolor, 5), 2) * bgchannel, 4)
                   + Shr(BitAnd(Shr(bgcolor, 5), 4) * bgchannel, 2))

\* the background colour _read_spr_image derives from the header's bgcolor byte
BackgroundOf(bgcolor) ==
    LET bgchannel == Shr(bgcolor, 3)
    IN int_to_rgbm(Shl(BitAnd(bgcolor, 1) * bgchannel, 10)
                   + Shl(BitAnd(bgcolor, 2) * bgchannel, 4)
                   + Shr(BitAnd(bgcolor, 4) * bgchannel, 2))

\* the pixels of a row: map(_int_to_rgbm, struct.unpack('<{}H', ...))
RowPixels(raw) == [i \in 1..(Len(raw) \div 2) |-> int_to_rgbm(UnpackHs(raw)[i])]

RECURSIVE ReadRows(_, _, _, _, _, _)
RECURSIVE ReadRow(_, _, _, _, _, _, _)
RECURSIVE ReadRowData(_, _, _, _, _, _, _, _)
RECURSIVE ReadRowPixels(_, _, _, _, _, _, _, _, _)

\* the while loop of _read_spr_image: [err, data, pos]
ReadRows(file, pos, size, width, bgcolor, image_data) ==
    IF size <= TRAILER_SIZE THEN [err |-> "ok", data |-> image_data, pos |-> pos]
    ELSE ReadRow(file, pos, size, width, bgcolor, image_data,
                 Read(file, pos, IMAGE_ROW_HEADER_SIZE))

\* one pass of the loop, hdr being the bytes read for the row header
ReadRow(file, pos, size, width, bgcolor, image_data, hdr) ==
    IF Len(hdr) # IMAGE_ROW_HEADER_SIZE
    THEN [err |-> "struct.error", data |-> image_data, pos |-> pos]
    ELSE ReadRowData(file, pos + IMAGE_ROW_HEADER_SIZE,
                     size - IMAGE_ROW_HEADER_SIZE, width, bgcolor, image_data,
                     UnpackL(SubSeq(hdr, 1, 4)), UnpackL(SubSeq(hdr, 5, 8)))

\* the pass after the row header: spr_file.read(row_bytes) raises ValueError
\* for a negative count other than -1, which reads to the end of the file
ReadRowData(file, pos, size, width, bgcolor, image_data, empty_bytes, row_bytes) ==
    IF row_bytes < -1
    THEN [err |-> "ValueError", data |-> image_data, pos |-> pos]
    ELSE ReadRowPixels(file, pos, size, width, bgcolor, image_data,
                       empty_bytes, row_bytes,
                       IF row_bytes = 0 THEN <<>>
                       ELSE IF row_bytes = -1 THEN Read(file, pos, Len(file))
                       ELSE Read(file, pos, row_bytes))

\* the pass after the read of the row's bytes raw
ReadRowPixels(file, pos, size, width, bgcolor, image_data, empty_bytes, row_bytes, raw) ==
    IF row_bytes # 0 /\ (row_bytes < 0 \/ Len(raw) # 2 * (row_bytes \div 2))
    THEN [err |-> "struct.error", data |-> image_data, pos |-> pos]
    ELSE ReadRows(file, pos + Len(raw), size - row_bytes, width, bgcolor,
                  image_data
                      \o (IF empty_bytes # 0 THEN Repeat(bgcolor, empty_bytes \div 2)
                          ELSE <<>>)
                      \o RowPixels(raw)
                      \o Repeat(bgcolor, width - ((empty_bytes + row_bytes) \div 2)))

\* Image.new('RGBA', (width, height), None); image.putdata(image_data).
\* More items than pixels raise TypeError; with fewer items the remaining
\* pixels keep what Image.new left there (the files modelled here always
\* give exactly width * height items).
putdata(width, height, image_data) ==
    IF Len(image_data) > width * height
    THEN [err |-> "TypeError", image |-> None]
    ELSE [err |-> "ok",
          image |-> Image(width, height,
                          [i \in 1..Max(width * height, 0) |->
                              IF i <= Len(image_data) THEN image_data[i]
                              ELSE <<0, 0, 0, 0>>])]

\* the end of _read_spr_image, rows being what the while loop returned and
\* made what putdata returned
ImageRead(rows, made) ==
    IF rows.err # "ok" THEN [err |-> rows.err, image |-> None, pos |-> rows.pos]
    ELSE [err |-> made.err, image |-> made.image, pos |-> rows.pos + TRAILER_SIZE]

\* _read_spr_image after the while loop: the empty lines below the bounding box
ReadBelow(width, height, bottom, bgcolor, rows) ==
    ImageRead(rows,
              putdata(width, height,
                      rows.data \o RepeatTwice(bgcolor, width, height - bottom)))

\* _read_spr_image after the header: f holds width, height, left, top, right
\* and bottom
ReadBody(file, pos, f, bgcolor, size) ==
    ReadBelow(f[1], f[2], f[6], bgcolor,
              ReadRows(file, pos, size, f[1], bgcolor, RepeatTwice(bgcolor, f[1], f[4])))

\* _read_spr_image after the read of the header bytes hdr
ReadHeader(file, pos, hdr) ==
    IF Len(hdr) # IMAGE_HEADER_SIZE
    THEN [err |-> "struct.error", image |-> None, pos |-> pos]
    ELSE ReadBody(file, pos + IMAGE_HEADER_SIZE, UnpackLs(SubSeq(hdr, 17, 40)),
                  BackgroundOf(hdr[41]), UnpackL(SubSeq(hdr, 42, 45)))

\* _read_spr_image(spr_file) with the file at position pos: [err, image, pos]
read_spr_image(file, pos) == ReadHeader(file, pos, Read(file, pos, IMAGE_HEADER_SIZE))

----------------------------------------------------------------------------
(* sprite.objects.Sprite.  A list argument that may be None is a record:   *)
(* NoneList for None, List(s) for the list s.  images holds object ids.    *)

NoneList == [isNone |-> TRUE, items |-> <<>>]
List(s) == [isNone |-> FALSE, items |-> s]

\* bool(x) for x a list or None
Truthy(x) == ~x.isNone /\ x.items # <<>>

\* the test of Sprite.__init__ comparing presence (is not None) instead of
\* truth
SpriteInitRaisesOnNone(frames, animation_index) ==
    frames.isNone # animation_index.isNone

\* the test of Sprite.__init__: does the constructor raise ValueError?
SpriteInitRaises(frames, animation_index) ==
    Truthy(frames) # Truthy(animation_index)

\* Sprite.__init__(images, frames, animation_index), when it does not raise
Sprite(images, frames, animation_index) ==
    [images |-> images, frames |-> frames, animation_index |-> animation_index,
     has_animations |-> Truthy(frames),
     type |-> IF Truthy(frames)
              THEN (IF Len(animation_index.items) = 32 THEN "UNIT" ELSE "RESOURCES")
              ELSE "STATIC"]

\* find_matching_image_indexes that tests identity whatever identical is
find_identical_image_indexes(spr, objs, image, identical) ==
    SelectSeq([i \in 1..Len(spr.images) |-> i - 1],
              LAMBDA i : spr.images[i + 1] = image)

\* Sprite.find_matching_image_indexes(image, identical): the indexes (from 0)
\* it generates, in order; image is an object id
find_matching_image_indexes(spr, objs, image, identical) ==
    LET test(img) == IF identical THEN img = image ELSE objs[img] = objs[image]
    IN SelectSeq([i \in 1..Len(spr.images) |-> i - 1],
                 LAMBDA i : test(spr.images[i + 1]))

----------------------------------------------------------------------------
(* load                                                                    *)

\* struct.unpack('<{size // 4}l', raw), raw being what spr_file.read(size)
\* returned at position pos: [err, values, pos]
UnpackLongs(pos, size, raw) ==
    IF size < 0 \/ Len(raw) # 4 * (size \div 4)
    THEN [err |-> "struct.error", values |-> <<>>, pos |-> pos + Len(raw)]
    ELSE [err |-> "ok", values |-> UnpackLs(raw), pos |-> pos + Len(raw)]

\* spr_file.seek(pos); struct.unpack('<{size // 4}l', spr_file.read(size)):
\* [err, values, pos].  seek raises OSError for a negative position, read
\* raises ValueError for a negative count other than -1
ReadLongs(file, pos, size) ==
    IF pos < 0 THEN [err |-> "OSError", values |-> <<>>, pos |-> pos]
    ELSE IF size < -1 THEN [err |-> "ValueError", values |-> <<>>, pos |-> pos]
    ELSE UnpackLongs(pos, size,
                     IF size = -1 THEN Read(file, pos, Len(file))
                     ELSE Read(file, pos, size))

RECURSIVE ScanBoundary(_, _, _, _)
\* the for loop of load from position index on: [found, index, first_frame]
ScanBoundary(anim_data, animation_offset, index, first_frame) ==
    IF index >= Len(anim_data)
    THEN [found |-> FALSE, index |-> index, first_frame |-> first_frame]
    ELSE IF (index * 4) + animation_offset = first_frame
    THEN [found |-> TRUE, index |-> index, first_frame |-> first_frame]
    ELSE IF anim_data[index + 1] < first_frame
    THEN ScanBoundary(anim_data, animation_offset, index + 1, anim_data[index + 1])
    ELSE ScanBoundary(anim_data, animation_offset, index + 1, first_frame)

\* the boundary search without the running minimum: the first entry is
\* taken for the lowest one
FindBoundaryFirstEntry(anim_data, animation_offset) ==
    LET hit == {i \in 0..(Len(anim_data) - 1) : (i * 4) + animation_offset = anim_data[1]}
    IN IF hit = {}
       THEN [found |-> FALSE, index |-> Len(anim_data), first_frame |-> anim_data[1]]
       ELSE [found |-> TRUE, index |-> Min(hit), first_frame |-> anim_data[1]]

\* first_frame = anim_data[0] and the for loop over enumerate(anim_data)
FindBoundary(anim_data, animation_offset) ==
    ScanBoundary(anim_data, animation_offset, 0, anim_data[1])

NoAnimationData(err) == [err |-> err, frames |-> NoneList, animation_index |-> NoneList]

\* the animation part of load with the index taken relative to the first
\* word instead of the lowest one
SplitAnimationsFromFirst(anim_data, b) ==
    IF ~b.found THEN NoAnimationData("TypeError")
    ELSE [err |-> "ok",
          frames |-> List([i \in 1..(Len(anim_data) - b.index) |->
                              int_to_frame(anim_data[b.index + i])]),
          animation_index |-> List([i \in 1..b.index |->
                              (anim_data[i] - anim_data[1]) \div 4])]

\* the animation part of load after the scan, b being what the scan found:
\* without a boundary animation_index is still None and iterating it raises
SplitAnimations(anim_data, b) ==
    IF ~b.found THEN NoAnimationData("TypeError")
    ELSE [err |-> "ok",
          frames |-> List([i \in 1..(Len(anim_data) - b.index) |->
                              int_to_frame(anim_data[b.index + i])]),
          animation_index |-> List([i \in 1..b.index |->
                              (anim_data[i] - b.first_frame) \div 4])]

\* the animation part of load after the read, got being what was read
ScanAnimations(animation_offset, got) ==
    IF got.err # "ok" THEN NoAnimationData(got.err)
    ELSE IF got.values = <<>> THEN NoAnimationData("IndexError")
    ELSE SplitAnimations(got.values, FindBoundary(got.values, animation_offset))

\* the animation part of load: [err, frames, animation_index]
LoadAnimations(file, animation_offset, image_index_offset) ==
    IF animation_offset = 0 THEN NoAnimationData("ok")
    ELSE ScanAnimations(animation_offset,
                        ReadLongs(file, animation_offset,
                                  image_index_offset - animation_offset))

RECURSIVE ReadImages(_, _, _, _, _, _)
RECURSIVE ReadImage(_, _, _, _, _, _, _)

\* the while loop of load: [err, image_sources, image_offsets], where
\* image_offsets[k] is the key under which image_offset_map holds k
ReadImages(file, pos, images_offset, last, image_sources, image_offsets) ==
    IF pos - images_offset = last
    THEN [err |-> "ok", image_sources |-> image_sources,
          image_offsets |-> image_offsets]
    ELSE ReadImage(file, pos, images_offset, last, image_sources, image_offsets,
                   read_spr_image(file, pos))

\* one pass of the loop, r being what _read_spr_image returned
ReadImage(file, pos, images_offset, last, image_sources, image_offsets, r) ==
    IF r.err # "ok"
    THEN [err |-> r.err, image_sources |-> image_sources,
          image_offsets |-> image_offsets]
    ELSE ReadImages(file, r.pos, images_offset, last,
                    Append(image_sources, r.image),
                    Append(image_offsets, pos - images_offset))

\* image_sources[image_offset_map[x]] looked up by pixel content instead of
\* by offset: the first decoded object that looks like the one at offset x
SlotObjectByValue(image_sources, image_offsets, base, x) ==
    LET at == CHOOSE k \in 1..Len(image_offsets) : image_offsets[k] = x
    IN base + Min({k \in 1..Len(image_sources) : image_sources[k] = image_sources[at]})

\* image_sources[image_offset_map[x]] as an object id: the object decoded at
\* offset x (base is the number of objects that exist already)
SlotObject(image_sources, image_offsets, base, x) ==
    base + CHOOSE k \in 1..Len(image_offsets) : image_offsets[k] = x

LoadFailed(err, objs) == [err |-> err, sprite |-> None, heap |-> objs]

\* the end of load: the images list and the Sprite; slots is image_index
\* after the pop, read what the while loop returned
BuildSprite(objs, anim, slots, read) ==
    IF read.err # "ok" THEN LoadFailed(read.err, objs)
    ELSE IF \E i \in 1..Len(slots) :
              \A k \in 1..Len(read.image_offsets) : read.image_offsets[k] # slots[i]
    THEN LoadFailed("KeyError", objs)
    ELSE IF SpriteInitRaises(anim.frames, anim.animation_index)
    THEN LoadFailed("ValueError", objs)
    ELSE [err |-> "ok",
          sprite |-> Sprite([i \in 1..Len(slots) |->
                                SlotObject(read.image_sources, read.image_offsets,
                                           Len(objs), slots[i])],
                            anim.frames, anim.animation_index),
          heap |-> objs \o read.image_sources]

\* load after the read of the image index idx
LoadImages(file, objs, images_offset, anim, idx) ==
    IF idx.err # "ok" THEN LoadFailed(idx.err, objs)
    ELSE IF idx.values = <<>> THEN LoadFailed("IndexError", objs)
    ELSE BuildSprite(objs, anim, SubSeq(idx.values, 1, Len(idx.values) - 1),
                     ReadImages(file, idx.pos, images_offset,
                                idx.values[Len(idx.values)], <<>>, <<>>))

\* load after the animation part anim
LoadIndex(file, objs, image_index_offset, images_offset, anim) ==
    IF anim.err # "ok" THEN LoadFailed(anim.err, objs)
    ELSE LoadImages(file, objs, images_offset, anim,
                    ReadLongs(file, image_index_offset,
                              images_offset - image_index_offset))

\* load after the read of the file header: h holds animation_offset,
\* image_index_offset and images_offset
LoadSections(file, objs, h) ==
    LoadIndex(file, objs, h[2], h[3], LoadAnimations(file, h[1], h[2]))

\* load after the read of the header bytes
LoadHeader(file, objs, header) ==
    IF Len(header) # FILE_HEADER_SIZE THEN LoadFailed("struct.error", objs)
    ELSE LoadSections(file, objs, UnpackLs(header))

\* load(path) on the bytes file: [err, sprite, heap]; the new Image objects
\* are appended to objs
load(file, objs) == LoadHeader(file, objs, Read(file, 0, FILE_HEADER_SIZE))

----------------------------------------------------------------------------
(* save                                                                    *)

\* next(sprite.find_matching_image_indexes(img)) taken by pixel equality
first_occurrence_by_value(spr, objs, n) ==
    Head(find_matching_image_indexes(spr, objs, spr.images[n + 1], FALSE))

\* next(sprite.find_matching_image_indexes(img)) for img = sprite.images[n]
first_occurrence(spr, objs, n) ==
    Head(find_matching_image_indexes(spr, objs, spr.images[n + 1], TRUE))

RECURSIVE SaveImagesEndFirst(_, _, _, _, _)
\* the for loop of save with current_end advanced before the offset is
\* appended to the index
SaveImagesEndFirst(spr, objs, n, image_index, written) ==
    IF n >= Len(spr.images)
    THEN [image_index |-> Append(image_index, Len(written)), written |-> written]
    ELSE IF first_occurrence(spr, objs, n) = n
    THEN SaveImagesEndFirst(spr, objs, n + 1,
             Append(image_index,
                    Len(written \o image_object_to_sprite_image(objs[spr.images[n + 1]]))),
             written \o image_object_to_sprite_image(objs[spr.images[n + 1]]))
    ELSE SaveImagesEndFirst(spr, objs, n + 1,
             Append(image_index, image_index[first_occurrence(spr, objs, n) + 1]),
             written)

RECURSIVE SaveImages(_, _, _, _, _)
\* the for loop of save from slot n on: [image_index, written], where written
\* is what the loop has written at first_image_offset and current_end = Len(written)
SaveImages(spr, objs, n, image_index, written) ==
    IF n >= Len(spr.images)
    THEN [image_index |-> Append(image_index, Len(written)), written |-> written]
    ELSE IF first_occurrence(spr, objs, n) = n
    THEN SaveImages(spr, objs, n + 1, Append(image_index, Len(written)),
                    written \o image_object_to_sprite_image(objs[spr.images[n + 1]]))
    ELSE SaveImages(spr, objs, n + 1,
                    Append(image_index, image_index[first_occurrence(spr, objs, n) + 1]),
                    written)

\* animation_data of save without the frame words
AnimationDataIndexOnly(spr, animations_offset) ==
    [i \in 1..Len(spr.animation_index.items) |->
        animations_offset + 4 * Len(spr.animation_index.items)
            + 4 * spr.animation_index.items[i]]

\* animation_data of save: the index as file offsets, then the frame words
AnimationData(spr, animations_offset) ==
    [i \in 1..Len(spr.animation_index.items) |->
        animations_offset + 4 * Len(spr.animation_index.items)
            + 4 * spr.animation_index.items[i]]
    \o [i \in 1..Len(spr.frames.items) |-> frame_to_int(spr.frames.items[i])]

\* open(path, 'xb') that would open an existing file and truncate it, as
\* mode 'wb' does
open_truncating(file) == "ok"

\* open(path, 'xb'): exclusive creation fails when the path exists
open_exclusive(file) == IF file.exists THEN "FileExistsError" ELSE "ok"

\* save(sprite, path) with file the file at path before the call:
\* [err, file], file being the file at path after the call
save(spr, objs, file) ==
    LET animations_offset == IF spr.has_animations THEN FILE_HEADER_SIZE ELSE 0
        image_index_offset ==
            IF spr.has_animations
            THEN FILE_HEADER_SIZE
                   + 4 * (Len(spr.animation_index.items) + Len(spr.frames.items))
            ELSE FILE_HEADER_SIZE
        first_image_offset == image_index_offset + 4 * (Len(spr.images) + 1)
        f1 == WriteAt(<<>>, 0, PackLs(<<animations_offset, image_index_offset,
                                       first_image_offset>>))
        f2 == IF spr.has_animations
              THEN WriteAt(f1, Len(f1), PackLs(AnimationData(spr, animations_offset)))
              ELSE f1
        imgs == SaveImages(spr, objs, 0, <<>>, <<>>)
        f3 == WriteAt(f2, first_image_offset, imgs.written)
        f4 == WriteAt(f3, image_index_offset, PackLs(imgs.image_index))
    IN IF open_exclusive(file) # "ok"
       THEN [err |-> open_exclusive(file), file |-> file]
       ELSE IF image_index_offset # Len(f2)
       THEN [err |-> "AssertionError", file |-> File(f2)]
       ELSE [err |-> "ok", file |-> File(f4)]

\* items appended in place to a list: one of the document's lists
\* ("images", "frames", "animation_index") or a list the call made itself
Appends(list, items) == [list |-> list, items |-> items]

\* the document after items were appended to a list
Appended(spr, change) ==
    CASE change.list = "images" -> [spr EXCEPT !.images = @ \o change.items]
      [] change.list = "frames" ->
            [spr EXCEPT !.frames = List(@.items \o change.items)]
      [] change.list = "animation_index" ->
            [spr EXCEPT !.animation_index = List(@.items \o change.items)]
      [] OTHER -> spr

RECURSIVE AfterAppends(_, _)
\* the document after the changes a call made in place, in order
AfterAppends(spr, changes) ==
    IF changes = <<>> THEN spr
    ELSE AfterAppends(Appended(spr, Head(changes)), Tail(changes))

\* the in-place changes of save with animation_data bound to
\* sprite.animation_index itself instead of a new list
save_appends_aliased(spr, objs) ==
    (IF spr.has_animations
     THEN <<Appends("animation_index",
                    [i \in 1..Len(spr.frames.items) |-> frame_to_int(spr.frames.items[i])])>>
     ELSE <<>>)
    \o <<Appends("local", SaveImages(spr, objs, 0, <<>>, <<>>).image_index)>>

\* the in-place changes of save once the file is open: animation_data, a
\* list made by a comprehension, is extended by the frame words, and
\* image_index, a new list, gets an entry per slot and the final one
save_appends(spr, objs) ==
    (IF spr.has_animations
     THEN <<Appends("local",
                    [i \in 1..Len(spr.frames.items) |-> frame_to_int(spr.frames.items[i])])>>
     ELSE <<>>)
    \o <<Appends("local", SaveImages(spr, objs, 0, <<>>, <<>>).image_index)>>

----------------------------------------------------------------------------
(* Colour packing on every 15-bit colour.                                  *)

\* what the variables of the other specifications hold meanwhile
IdleRest ==
    /\ disk = [p \in Paths |-> NoFile]
    /\ sprite = None
    /\ heap = <<>>
    /\ outcome = "none"
    /\ plan = None
    /\ first = None

rest == <<disk, sprite, heap, outcome, plan, first>>

InitColor ==
    /\ pc = "color"
    /\ arg \in 0..(2 ^ 15 - 1)
    /\ ret = None
    /\ IdleRest

IntToRgbm ==
    /\ pc = "color"
    /\ ret' = int_to_rgbm(arg)
    /\ pc' = "unpacked"
    /\ UNCHANGED <<arg, rest>>

RgbmToInt ==
    /\ pc = "unpacked"
    /\ ret' = rgbm_to_int(ret)
    /\ pc' = "packed"
    /\ UNCHANGED <<arg, rest>>

NextColor == IntToRgbm \/ RgbmToInt

SpecColor == InitColor /\ [][NextColor]_vars

\* C3: for every 15-bit colour v, _rgbm_to_int(_int_to_rgbm(v)) = v, and
\* _int_to_rgbm returns 8-bit channels with the mask off.
C3_ColorRoundTrip ==
    /\ pc = "packed" => ret = arg
    /\ pc = "unpacked" =>
          /\ \A i \in 1..3 : ret[i] \in 0..255
          /\ ret[4] = 0

C3_Witness == pc = "packed" /\ arg = 21930 /\ ret = 21930

----------------------------------------------------------------------------
(* Frame records.                                                          *)

\* image values that do not fit in 10 bits
WideImages == {-1, 1024, 1025, 2047}

InitFrame ==
    /\ pc = "frame"
    /\ \E i \in (0..1023) \cup WideImages, t \in 0..7,
          f \in BOOLEAN \X BOOLEAN \X BOOLEAN \X BOOLEAN \X BOOLEAN :
            arg = Frame(i, t, f[1], f[2], f[3], f[4], f[5])
    /\ ret = None
    /\ IdleRest

\* _frame_to_int has no path that raises
FrameToInt ==
    /\ pc = "frame"
    /\ ret' = frame_to_int(arg)
    /\ outcome' = "ok"
    /\ pc' = "frame_packed"
    /\ UNCHANGED <<arg, disk, sprite, heap, plan, first>>

IntToFrame ==
    /\ pc = "frame_packed"
    /\ ret' = int_to_frame(ret)
    /\ pc' = "frame_unpacked"
    /\ UNCHANGED <<arg, rest>>

NextFrame == FrameToInt \/ IntToFrame

SpecFrame == InitFrame /\ [][NextFrame]_vars

\* C7: a frame with image in 0..1023 and transparency in 0..7 packs to the
\* word with image at bits 0-9, transparency at 10-12, start, loop and mirror
\* at 13, 14 and 15, 0x06 at 16-23, end at 24 and continuous at 25, and
\* unpacking that word gives the frame back.
C7_FrameRoundTrip ==
    (arg.image \in 0..1023 /\ arg.transparency \in 0..7) =>
        /\ pc = "frame_packed" =>
              ret = arg.image + 1024 * arg.transparency + 8192 * Flag(arg.start)
                      + 16384 * Flag(arg.loop) + 32768 * Flag(arg.mirror)
                      + 6 * 65536 + 16777216 * Flag(arg.end)
                      + 33554432 * Flag(arg.continuous)
        /\ pc = "frame_unpacked" => ret = arg

C7_Witness ==
    /\ pc = "frame_unpacked"
    /\ arg = Frame(1023, 7, TRUE, FALSE, TRUE, FALSE, TRUE)
    /\ ret = arg

\* C8: packing a frame whose image does not fit in 10 bits fails.
C8_WideImageFails ==
    (pc = "frame_packed" /\ arg.image \notin 0..1023) => outcome # "ok"

----------------------------------------------------------------------------
(* The scanline image codec on small images.                               *)

MaxWidth == 3
MaxHeight == 2
\* the largest number of pixels of an input image that are not transparent
MaxInk == 2

\* the colours of those pixels: magenta with the mask on, black, white with
\* the mask on (each a colour the 15-bit format represents exactly)
Palette == {<<255, 0, 255, 255>>, <<0, 0, 0, 0>>, <<255, 255, 255, 255>>}

\* the image of the given size that is transparent except where ink says
Drawn(width, height, ink) ==
    Image(width, height,
          [i \in 1..(width * height) |->
              IF i \in DOMAIN ink THEN ink[i] ELSE transparent])

InitImage ==
    /\ pc = "image"
    /\ \E width \in 1..MaxWidth, height \in 1..MaxHeight :
         \E at \in SUBSET (1..(width * height)) :
           /\ Cardinality(at) <= MaxInk
           /\ \E ink \in [at -> Palette] : arg = Drawn(width, height, ink)
    /\ ret = None
    /\ IdleRest

ImageObjectToSpriteImage ==
    /\ pc = "image"
    /\ ret' = image_object_to_sprite_image(arg)
    /\ pc' = "image_encoded"
    /\ UNCHANGED <<arg, rest>>

ReadSprImage ==
    /\ pc = "image_encoded"
    /\ LET r == read_spr_image(ret, 0)
       IN /\ ret' = r.image
          /\ outcome' = r.err
    /\ pc' = "image_decoded"
    /\ UNCHANGED <<arg, disk, sprite, heap, plan, first>>

NextImage == ImageObjectToSpriteImage \/ ReadSprImage

SpecImage == InitImage /\ [][NextImage]_vars

HasInk(image) == \E i \in 1..Len(image.data) : image.data[i] # transparent

\* C2: an image with at least one pixel other than the sentinel is decoded
\* from its own encoding with the same size and the same pixels.
C2_RowCodecRoundTrip ==
    (pc = "image_decoded" /\ HasInk(arg)) => (outcome = "ok" /\ ret = arg)

----------------------------------------------------------------------------
(* Constructing a Sprite.                                                  *)

MaxFrames == 2
MaxAnimations == 2

\* the sequences over S of length lo..hi
SeqsOf(S, lo, hi) == UNION {[1..n -> S] : n \in lo..hi}

\* frames that occur in the constructor's arguments
SampleFrames ==
    {Frame(0, 0, TRUE, FALSE, FALSE, FALSE, FALSE),
     Frame(1, 3, FALSE, TRUE, TRUE, FALSE, TRUE)}

InitSprite ==
    /\ pc = "new"
    /\ \E frames \in {NoneList} \cup {List(s) : s \in SeqsOf(SampleFrames, 0, MaxFrames)},
          animation_index \in {NoneList}
              \cup {List(s) : s \in SeqsOf(0..(MaxFrames - 1), 0, MaxAnimations)} :
            arg = [images |-> <<>>, frames |-> frames,
                   animation_index |-> animation_index]
    /\ ret = None
    /\ IdleRest

\* Sprite(images, frames, animation_index)
SpriteInit ==
    /\ pc = "new"
    /\ IF SpriteInitRaises(arg.frames, arg.animation_index)
       THEN /\ outcome' = "ValueError"
            /\ sprite' = sprite
       ELSE /\ outcome' = "ok"
            /\ sprite' = Sprite(arg.images, arg.frames, arg.animation_index)
    /\ pc' = "constructed"
    /\ UNCHANGED <<arg, ret, disk, heap, plan, first>>

\* an attribute of the object is read
ReadType ==
    /\ pc = "constructed"
    /\ outcome = "ok"
    /\ ret' = sprite.type
    /\ pc' = "used"
    /\ UNCHANGED <<arg, rest>>

NextSprite == SpriteInit \/ ReadType

SpecSprite == InitSprite /\ [][NextSprite]_vars

\* a list that is given and has an item
NonEmpty(x) == ~x.isNone /\ Len(x.items) > 0

\* C10 as claimed: the constructor fails whenever one of frames and
\* animation_index is given (not None) and the other is None.
C10_PresenceEnforced ==
    (pc = "constructed" /\ arg.frames.isNone # arg.animation_index.isNone)
        => outcome = "ValueError"

\* C10 amended: the constructor raises ValueError exactly when one of frames
\* and animation_index is non-empty and the other is empty or None, so in
\* every Sprite that exists both are non-empty or neither is.
C10_NonEmptyTogether ==
    /\ pc = "constructed" =>
          (outcome = "ValueError" <=>
              (NonEmpty(arg.frames) # NonEmpty(arg.animation_index)))
    /\ (pc \in {"constructed", "used"} /\ outcome = "ok") =>
          /\ NonEmpty(sprite.frames) <=> NonEmpty(sprite.animation_index)
          /\ sprite.has_animations <=> NonEmpty(sprite.frames)

C10_Witness ==
    /\ pc = "constructed"
    /\ outcome = "ValueError"
    /\ NonEmpty(arg.frames)
    /\ arg.animation_index = List(<<>>)

----------------------------------------------------------------------------
(* .spr files as input: a file is laid out from a plan, which lists the    *)
(* stored image records, the record each index slot points at, and the     *)
(* animation section.  The layout is the format's, the content is free:    *)
(* any background byte, slots sharing a record, records no slot points at, *)
(* any frame word, index entries in any order.                             *)

MaxRecords == 2
MaxSlots == 3

\* a stored image record: header fields and, per row of the box, the number
\* of empty pixels and the 16-bit colour words
StoredRecord(width, height, box, bg, rows) ==
    [width |-> width, height |-> height, box |-> box, bg |-> bg, rows |-> rows]

Row(empty, words) == [empty |-> empty, words |-> words]

RecordBytes(r) ==
    LET row_data == Concat([k \in 1..Len(r.rows) |->
                       PackLs(<<2 * r.rows[k].empty, 2 * Len(r.rows[k].words)>>)
                           \o PackHs(r.rows[k].words)])
    IN PackImageHeader(r.width, r.height, r.box[1], r.box[2], r.box[3], r.box[4],
                       r.bg, Len(row_data) + TRAILER_SIZE)
           \o row_data \o Repeat(0, TRAILER_SIZE)

\* 2x1, black then transparent
BlackRecord == StoredRecord(2, 1, <<0, 0, 1, 1>>, 253, <<Row(0, <<0>>)>>)
\* 2x1, white with mask then magenta with mask (words 0xFFFF, 0xFC1F)
MaskedRecord == StoredRecord(2, 1, <<0, 0, 2, 1>>, 253, <<Row(0, <<65535, 64543>>)>>)
\* 1x2 on a black background byte: black, then magenta (word 0x7C1F)
BlackBackgroundRecord == StoredRecord(1, 2, <<0, 1, 1, 2>>, 0, <<Row(0, <<31775>>)>>)
\* 1x1, nothing but background
BlankRecord == StoredRecord(1, 1, <<0, 0, 0, 0>>, 253, <<>>)
\* 2x2: a row with a leading empty pixel, then a row with no pixels
SparseRecord == StoredRecord(2, 2, <<1, 0, 2, 2>>, 253, <<Row(1, <<32767>>), Row(0, <<>>)>>)

Catalogue == {BlackRecord, MaskedRecord, BlackBackgroundRecord, BlankRecord, SparseRecord}

\* the records that files with several records are made of
SmallCatalogue == {BlackRecord, MaskedRecord, BlackBackgroundRecord}

\* frame words: a start frame, a word with other bits set in the constant
\* byte and above bit 25, and the word with every bit set
FrameWords == {401408, 83842049, -1}

NoAnimations == [present |-> FALSE, entries |-> <<>>, words |-> <<>>]
Animations(entries, words) == [present |-> TRUE, entries |-> entries, words |-> words]

Undamaged == [kind |-> "none", a |-> 0, b |-> 0]
Truncated(len) == [kind |-> "truncate", a |-> len, b |-> 0]
HeaderField(field, value) == [kind |-> "header", a |-> field, b |-> value]

Plan(records, slots, anim, damage) ==
    [records |-> records, slots |-> slots, anim |-> anim, damage |-> damage]

RECURSIVE SumLen(_)
SumLen(ss) == IF ss = <<>> THEN 0 ELSE Len(Head(ss)) + SumLen(Tail(ss))

\* the offset of stored record k in the image data
RecordOffset(p, k) == SumLen([i \in 1..(k - 1) |-> RecordBytes(p.records[i])])

\* the three header offsets of the plan's file
PlanOffsets(p) ==
    LET animation_offset == IF p.anim.present THEN FILE_HEADER_SIZE ELSE 0
        image_index_offset ==
            FILE_HEADER_SIZE + 4 * (Len(p.anim.entries) + Len(p.anim.words))
    IN <<animation_offset, image_index_offset,
         image_index_offset + 4 * (Len(p.slots) + 1)>>

\* the file offset of the first stored frame record
FirstFrameOffset(p) == FILE_HEADER_SIZE + 4 * Len(p.anim.entries)

\* the bytes of the plan's file before any damage
LayOut(p) ==
    LET anim_data == [k \in 1..Len(p.anim.entries) |->
                         FirstFrameOffset(p) + 4 * p.anim.entries[k]]
                     \o p.anim.words
        image_index == [i \in 1..Len(p.slots) |-> RecordOffset(p, p.slots[i])]
                       \o <<RecordOffset(p, Len(p.records) + 1)>>
    IN PackLs(PlanOffsets(p)) \o PackLs(anim_data) \o PackLs(image_index)
           \o Concat([k \in 1..Len(p.records) |-> RecordBytes(p.records[k])])

\* the bytes of the plan's file
FileOf(p) ==
    LET whole == LayOut(p)
    IN CASE p.damage.kind = "none" -> whole
         [] p.damage.kind = "truncate" -> SubSeq(whole, 1, p.damage.a)
         [] p.damage.kind = "header" ->
                WriteAt(whole, 4 * (p.damage.a - 1), PackL(p.damage.b))

\* a record without rows before one with a row, the first in two slots
MixedImages == <<<<BlankRecord, BlackRecord>>, <<1, 2, 1>>>>

ImagePlans ==
    {<<records, slots>> :
        records \in SeqsOf(SmallCatalogue, 0, MaxRecords),
        slots \in SeqsOf(1..MaxRecords, 0, MaxSlots)}
    \cup {<<records, slots>> :
        records \in SeqsOf(Catalogue, 1, 1), slots \in SeqsOf({1}, 1, MaxSlots)}
    \cup {MixedImages}

AnimationPlans ==
    {Animations(entries, words) :
        entries \in SeqsOf(0..(MaxFrames - 1), 1, MaxAnimations),
        words \in SeqsOf(FrameWords, 1, MaxFrames)}

\* the plans whose slots point at stored records and whose animation index
\* entries point at stored frame records
Plausible(p) ==
    /\ \A i \in 1..Len(p.slots) : p.slots[i] <= Len(p.records)
    /\ \A k \in 1..Len(p.anim.entries) : p.anim.entries[k] < Len(p.anim.words)

SimpleAnimations == Animations(<<0>>, <<401408>>)
SimpleImages == <<<<BlackRecord, SparseRecord>>, <<2, 1>>>>

\* the files that are cut short or carry an inconsistent header offset are
\* made from these two plans
DamagedBases ==
    {Plan(SimpleImages[1], SimpleImages[2], NoAnimations, Undamaged),
     Plan(<<BlackRecord>>, <<1>>, Animations(<<1, 0>>, <<401408, -1>>), Undamaged)}

\* header offsets that are negative or beyond the end of the file
BadOffsets(p) == {-4, -1, Len(LayOut(p)) + 8}

Damages(p) ==
    {Truncated(len) : len \in 0..(Len(LayOut(p)) - 1)}
        \cup {HeaderField(field, value) : field \in 1..3, value \in BadOffsets(p)}
        \cup {HeaderField(2, PlanOffsets(p)[3] + 4), HeaderField(3, PlanOffsets(p)[2] - 4)}

InitFile ==
    /\ pc = "file"
    /\ \/ \E ip \in ImagePlans, anim \in {NoAnimations, SimpleAnimations} :
            plan = Plan(ip[1], ip[2], anim, Undamaged)
       \/ \E anim \in AnimationPlans :
            plan = Plan(SimpleImages[1], SimpleImages[2], anim, Undamaged)
       \/ \E base \in DamagedBases : \E damage \in Damages(base) :
            plan = [base EXCEPT !.damage = damage]
    /\ Plausible(plan)
    /\ disk = [p \in Paths |-> IF p = "in" THEN File(FileOf(plan)) ELSE NoFile]
    /\ arg = None
    /\ ret = None
    /\ sprite = None
    /\ heap = <<>>
    /\ outcome = "none"
    /\ first = None

\* sprite = load(path)
Load ==
    /\ pc \in {"file", "saved"}
    /\ LET path == IF pc = "file" THEN "in" ELSE "out"
           r == load(disk[path].bytes, heap)
       IN /\ outcome' = r.err
          /\ sprite' = r.sprite
          /\ heap' = r.heap
          /\ first' = IF pc = "file" /\ r.err = "ok"
                      THEN [sprite |-> r.sprite, heap |-> r.heap]
                      ELSE first
          /\ pc' = IF r.err # "ok" THEN (IF pc = "file" THEN "load_failed" ELSE "reload_failed")
                   ELSE IF pc = "file" THEN "loaded" ELSE "reloaded"
    /\ UNCHANGED <<arg, ret, disk, plan>>

\* save(sprite, path)
Save ==
    /\ pc = "loaded"
    /\ \E path \in Paths :
         LET r == save(sprite, heap, disk[path])
         IN /\ arg' = path
            /\ outcome' = r.err
            /\ disk' = [disk EXCEPT ![path] = r.file]
            /\ pc' = IF r.err = "ok" THEN "saved" ELSE "save_failed"
            /\ sprite' = AfterAppends(sprite, IF r.err = "FileExistsError" THEN <<>>
                                                ELSE save_appends(sprite, heap))
    /\ UNCHANGED <<ret, heap, plan, first>>

NextFile == Load \/ Save

SpecFile == InitFile /\ [][NextFile]_vars

\* a file as the format lays it out, whose animation index refers to the
\* first stored frame record
WellFormed(p) ==
    /\ p.damage = Undamaged
    /\ p.anim.present => \E k \in 1..Len(p.anim.entries) : p.anim.entries[k] = 0

\* the documents a and b (each a Sprite with the heap its images are in) have
\* the same images pixel for pixel, the same frames and the same animation index
SameDocument(a, b) ==
    /\ Len(a.sprite.images) = Len(b.sprite.images)
    /\ \A i \in 1..Len(a.sprite.images) :
          a.heap[a.sprite.images[i]] = b.heap[b.sprite.images[i]]
    /\ a.sprite.frames = b.sprite.frames
    /\ a.sprite.animation_index = b.sprite.animation_index

\* C1: loading the file that save writes for load(x) gives a document equal
\* to load(x), for every well-formed file x.
C1_RoundTrip ==
    (WellFormed(plan) /\ pc \notin {"file", "loaded", "saved"}) =>
        /\ pc = "reloaded" \/ (pc = "save_failed" /\ outcome = "FileExistsError")
        /\ pc = "reloaded" => SameDocument(first, [sprite |-> sprite, heap |-> heap])

\* the header offsets a file holds
HeaderOf(bytes) == UnpackLs(Read(bytes, 0, FILE_HEADER_SIZE))

\* entry i (from 1) of the image index a file holds
IndexEntry(bytes, i) == UnpackL(Read(bytes, HeaderOf(bytes)[2] + 4 * (i - 1), 4))

RECURSIVE RecordStarts(_, _)
\* the offsets at which the image records of a file's image data start, each
\* record being 45 bytes and the number of bytes its length field gives
RecordStarts(bytes, pos) ==
    IF pos + IMAGE_HEADER_SIZE > Len(bytes) THEN <<>>
    ELSE <<pos - HeaderOf(bytes)[3]>>
           \o RecordStarts(bytes, pos + IMAGE_HEADER_SIZE
                                    + UnpackL(Read(bytes, pos + 41, 4)))

\* the objects the slots of the sprite hold
SlotObjects == {sprite.images[i] : i \in 1..Len(sprite.images)}

\* C4 as claimed: a slot whose image equals an earlier slot's image pixel for
\* pixel gets that slot's index entry and no record of its own.
C4_CompactionByValue ==
    pc = "saved" =>
        LET out == disk["out"].bytes
        IN /\ \A i, j \in 1..Len(sprite.images) :
                 heap[sprite.images[i]] = heap[sprite.images[j]]
                     => IndexEntry(out, i) = IndexEntry(out, j)
           /\ Len(RecordStarts(out, HeaderOf(out)[3]))
                 = Cardinality({heap[o] : o \in SlotObjects})

\* C4 amended: a slot that holds the same object as an earlier slot gets that
\* slot's index entry and no record of its own; slots that hold different
\* objects get a record each and different entries, also when the objects
\* are equal pixel for pixel.
C4_CompactionByIdentity ==
    pc = "saved" =>
        LET out == disk["out"].bytes
        IN /\ \A i, j \in 1..Len(sprite.images) :
                 (sprite.images[i] = sprite.images[j])
                     <=> (IndexEntry(out, i) = IndexEntry(out, j))
           /\ Len(RecordStarts(out, HeaderOf(out)[3])) = Cardinality(SlotObjects)
           /\ \A i \in 1..Len(sprite.images) :
                 \E k \in 1..Len(RecordStarts(out, HeaderOf(out)[3])) :
                     RecordStarts(out, HeaderOf(out)[3])[k] = IndexEntry(out, i)

C4_Witness ==
    /\ pc = "saved"
    /\ Len(sprite.images) = 3
    /\ sprite.images[1] = sprite.images[3]
    /\ sprite.images[1] # sprite.images[2]
    /\ heap[sprite.images[1]] = heap[sprite.images[2]]
    /\ IndexEntry(disk["out"].bytes, 3) = IndexEntry(disk["out"].bytes, 1)
    /\ IndexEntry(disk["out"].bytes, 2) # IndexEntry(disk["out"].bytes, 1)

\* C5: when every animation index entry of the file points at a stored frame
\* record and the lowest one at the first, load returns the stored frame
\* records, decoded in order, as frames and (entry - first frame offset) / 4
\* for each index entry as animation_index.
C5_BoundaryInference ==
    (pc \in {"loaded", "load_failed"} /\ plan.anim.present /\ WellFormed(plan)) =>
        /\ pc = "loaded"
        /\ sprite.frames
              = List([i \in 1..Len(plan.anim.words) |-> int_to_frame(plan.anim.words[i])])
        /\ sprite.animation_index
              = List([k \in 1..Len(plan.anim.entries) |->
                        (UnpackL(Read(disk["in"].bytes, FILE_HEADER_SIZE + 4 * (k - 1), 4))
                            - FirstFrameOffset(plan)) \div 4])

C5_Witness ==
    /\ pc = "loaded"
    /\ plan.anim.entries = <<0, 0>>
    /\ Len(plan.anim.words) = 2
    /\ sprite.animation_index = List(<<0, 0>>)
    /\ Len(sprite.frames.items) = 2

\* C6: in the document load returns, two slots hold the same object exactly
\* when their index entries hold the same offset, and every stored record is
\* decoded into one object.
C6_IdentitySharing ==
    pc = "loaded" =>
        /\ \A i, j \in 1..Len(sprite.images) :
              (sprite.images[i] = sprite.images[j])
                  <=> (IndexEntry(disk["in"].bytes, i) = IndexEntry(disk["in"].bytes, j))
        /\ Len(sprite.images) = Len(plan.slots)
        /\ Len(heap) = Len(plan.records)

C6_Witness ==
    /\ pc = "loaded"
    /\ plan.slots = <<2, 1, 2>>
    /\ sprite.images[1] = sprite.images[3]
    /\ sprite.images[1] # sprite.images[2]

\* the header offsets are negative, out of order or beyond the end of the file
Inconsistent(bytes) ==
    LET h == HeaderOf(bytes)
    IN \/ \E k \in 1..3 : h[k] < 0 \/ h[k] > Len(bytes)
       \/ h[1] > h[2]
       \/ h[2] > h[3]

\* C9: decoding a file whose header offsets are inconsistent, or which is
\* cut short, fails with a FormatError and returns no document.
C9_FormatError ==
    (pc \in {"loaded", "load_failed"}
        /\ (plan.damage.kind = "truncate"
              \/ (plan.damage.kind = "header" /\ Inconsistent(disk["in"].bytes))))
      => (pc = "load_failed" /\ outcome = "FormatError")

----------------------------------------------------------------------------
(* Documents as input: a Sprite as an adapter constructs it, saved as an   *)
(* .spr file and loaded again.                                             *)

\* the image objects of a document: one pixel each, black or white with the
\* mask on; two objects may look the same
Dots == {Image(1, 1, <<p>>) : p \in {<<0, 0, 0, 0>>, <<255, 255, 255, 255>>}}

\* the arguments Sprite.__init__ accepts, the animation index within frames
Constructible(images, frames, animation_index) ==
    /\ ~SpriteInitRaises(frames, animation_index)
    /\ ~animation_index.isNone =>
          \A i \in 1..Len(animation_index.items) :
              animation_index.items[i] < Len(frames.items)

\* the images of the documents: slots over one or several objects
DocumentImages ==
    {d \in [objs : SeqsOf(Dots, 1, MaxRecords), images : SeqsOf(1..MaxRecords, 0, MaxSlots)] :
        \A i \in 1..Len(d.images) : d.images[i] <= Len(d.objs)}

\* the animations of the documents: none, or frames with an index into them
DocumentAnimations ==
    {a \in [frames : {NoneList} \cup {List(f) : f \in SeqsOf(SampleFrames, 0, MaxFrames)},
            animation_index : {NoneList}
                \cup {List(x) : x \in SeqsOf(0..(MaxFrames - 1), 0, MaxAnimations)}] :
        Constructible(<<>>, a.frames, a.animation_index)}

SimpleDocumentImages == [objs |-> <<Image(1, 1, <<<<0, 0, 0, 0>>>>)>>, images |-> <<1>>]

SimpleDocumentAnimations ==
    {[frames |-> NoneList, animation_index |-> NoneList],
     [frames |-> List(<<Frame(0, 0, TRUE, FALSE, FALSE, FALSE, FALSE)>>),
      animation_index |-> List(<<0>>)]}

InitDocument ==
    /\ pc = "loaded"
    /\ \E d \in DocumentImages \cup {SimpleDocumentImages},
          a \in DocumentAnimations \cup SimpleDocumentAnimations :
            /\ d = SimpleDocumentImages \/ a \in SimpleDocumentAnimations
            /\ heap = d.objs
            /\ sprite = Sprite(d.images, a.frames, a.animation_index)
    /\ first = [sprite |-> sprite, heap |-> heap]
    /\ disk = [p \in Paths |-> IF p = "in" THEN File(<<>>) ELSE NoFile]
    /\ arg = None
    /\ ret = None
    /\ outcome = "none"
    /\ plan = None

SpecDocument == InitDocument /\ [][NextFile]_vars

\* the animation index entries a file holds, n being their number
IndexOffsets(bytes, n) ==
    {UnpackL(Read(bytes, FILE_HEADER_SIZE + 4 * (i - 1), 4)) : i \in 1..n}

\* C14: in every file save writes for a document with animations the lowest
\* animation index entry is the offset of the first frame record,
\* 12 + 4 * len(animation_index), and load recovers the document's
\* animation_index and frames from it.
C14_EncoderPrecondition ==
    /\ (pc = "saved" /\ sprite.has_animations) =>
          Min(IndexOffsets(disk[arg].bytes, Len(sprite.animation_index.items)))
              = FILE_HEADER_SIZE + 4 * Len(sprite.animation_index.items)
    /\ (pc \in {"reloaded", "reload_failed"} /\ first.sprite.has_animations) =>
          /\ pc = "reloaded"
          /\ sprite.animation_index = first.sprite.animation_index
          /\ sprite.frames = first.sprite.frames

\* C20: the header of the file save writes holds
\* (12, 12 + 4 * (len(animation_index) + len(frames)), that + 4 * (len(images) + 1))
\* for a document with animations and (0, 12, 12 + 4 * (len(images) + 1))
\* for one without, and the assertion in save never fails.
C20_SectionLayout ==
    /\ pc = "save_failed" => outcome = "FileExistsError"
    /\ pc = "saved" =>
          LET index_offset ==
                  IF sprite.has_animations
                  THEN 12 + 4 * (Len(sprite.animation_index.items)
                                   + Len(sprite.frames.items))
                  ELSE 12
          IN HeaderOf(disk[arg].bytes)
                 = <<IF sprite.has_animations THEN 12 ELSE 0, index_offset,
                     index_offset + 4 * (Len(sprite.images) + 1)>>

\* a document with two animations and two frames has been saved
C20_Witness ==
    /\ pc = "saved"
    /\ sprite.has_animations
    /\ Len(sprite.animation_index.items) = 2 /\ Len(sprite.frames.items) = 2
    /\ HeaderOf(disk[arg].bytes) = <<12, 28, 28 + 4 * (Len(sprite.images) + 1)>>

----------------------------------------------------------------------------
(* The file system the adapters write to: a function from the paths that   *)
(* exist to what is there.                                                 *)

\* a path: the name without its extension, the extension, and for a file in
\* the directory of that name the kind and number its name is made of
\* ('animation-003.png' is kind "animation", number 3)
Path(stem, ext, kind, n) == [stem |-> stem, ext |-> ext, kind |-> kind, n |-> n]

\* os.path.splitext(path)[0]
splitext(path) == Path(path.stem, "", "", 0)

\* os.path.join(images_dir, f'{kind}-{n:03d}.png')
join(images_dir, kind, n) == Path(images_dir.stem, "", kind, n)

Directory == [exists |-> TRUE, kind |-> "dir", content |-> <<>>]
Written(content) == [exists |-> TRUE, kind |-> "file", content |-> content]

\* what is at path: a file, a directory or nothing
Lookup(fs, path) == IF path \in DOMAIN fs THEN fs[path] ELSE NoFile

\* the file system with entry at path, created or written again
Put(fs, path, entry) ==
    [p \in DOMAIN fs \cup {path} |-> IF p = path THEN entry ELSE fs[p]]

\* os.remove that removes nothing
remove_nothing(fs, path) == fs

\* os.remove(path)
remove(fs, path) == [p \in DOMAIN fs \ {path} |-> fs[p]]

\* os.makedirs(images_dir): [err, fs]
makedirs(fs, images_dir) ==
    IF images_dir \in DOMAIN fs THEN [err |-> "FileExistsError", fs |-> fs]
    ELSE [err |-> "ok", fs |-> Put(fs, images_dir, Directory)]

----------------------------------------------------------------------------
(* sprite.objects: saving the images of a Sprite as PNG files.             *)

\* a coordinate that is None
NoCoordinate == -1

\* ImageDetails(path, x, y, width, height, mask path, mask x, mask y), the
\* mask being in the same file or absent
ImageDetails(path, x, y, width, height, masked, mask_y) ==
    [image_path |-> path, image_x |-> x, image_y |-> y,
     width |-> width, height |-> height, masked |-> masked,
     mask_x |-> IF masked THEN x ELSE NoCoordinate,
     mask_y |-> IF masked THEN mask_y ELSE NoCoordinate]

\* 255 in img.getdata(3)
HasMask(image) == \E i \in 1..Len(image.data) : image.data[i][4] = 255

RECURSIVE LeftOf(_, _, _)
\* left before image n (from 1) of the list: every image before it takes its
\* width and a border
LeftOf(images, objs, n) ==
    IF n <= 1 THEN 0
    ELSE LeftOf(images, objs, n - 1) + objs[images[n - 1]].width + 1

\* save_images_to_file(images, path) with borders: [err, fs, details].  The
\* picture written is represented by its size and the images pasted into it,
\* from left to right.
save_images_to_file(images, objs, fs, path) ==
    IF images = <<>> THEN [err |-> "ok", fs |-> fs, details |-> <<>>]
    ELSE IF open_exclusive(Lookup(fs, path)) # "ok"
    THEN [err |-> open_exclusive(Lookup(fs, path)), fs |-> fs, details |-> <<>>]
    ELSE LET max_height == MaxOf({objs[images[n]].height : n \in 1..Len(images)})
             any_masks == \E n \in 1..Len(images) : HasMask(objs[images[n]])
             total_width == LeftOf(images, objs, Len(images) + 1) + 1
             total_height == max_height + 2
                               + (IF any_masks THEN max_height + 1 ELSE 0)
         IN [err |-> "ok",
             fs |-> Put(fs, path,
                        Written(<<[size |-> <<total_width, total_height>>,
                                   images |-> [n \in 1..Len(images) |-> objs[images[n]]]]>>)),
             details |-> [n \in 1..Len(images) |->
                             ImageDetails(path, 1 + LeftOf(images, objs, n), 1,
                                          objs[images[n]].width,
                                          objs[images[n]].height,
                                          any_masks, 2 + max_height)]]

\* is the object img one of the objects in the list (i is img)?
IsIn(img, list) == \E k \in 1..Len(list) : list[k] = img

\* img in list: is an object of the list img or equal to it?
EqualIn(img, list, objs) == \E k \in 1..Len(list) : objs[list[k]] = objs[img]

\* the progress of save_as_pngs: [err, fs, saved_details, saved_images];
\* saved_details[i] is <<>> for None and <<details>> otherwise
Progress(err, fs, saved_details, saved_images) ==
    [err |-> err, fs |-> fs, saved_details |-> saved_details,
     saved_images |-> saved_images]

\* save_and_update_progress after save_images_to_file returned written
UpdateProgress(spr, objs, st, image_list, identical, written) ==
    IF written.err # "ok"
    THEN Progress(written.err, written.fs, st.saved_details, st.saved_images)
    ELSE Progress("ok", written.fs,
                  [idx \in 1..Len(st.saved_details) |->
                      LET hits == {n \in 1..Len(image_list) :
                                      IsIn(idx - 1,
                                           find_matching_image_indexes(
                                               spr, objs, image_list[n], identical))}
                      IN IF hits = {} THEN st.saved_details[idx]
                         ELSE <<written.details[MaxOf(hits)]>>],
                  st.saved_images \o image_list)

\* save_and_update_progress(image_list, image_path, identical)
save_and_update_progress(spr, objs, st, image_list, image_path, identical) ==
    UpdateProgress(spr, objs, st, image_list, identical,
                   save_images_to_file(image_list, objs, st.fs, image_path))

RECURSIVE WalkAnimation(_, _, _, _)
\* the for loop of get_images_in_animation from frame k (from 0) on:
\* [err, images].  The copy of the function in sprite.format.txt reads
\* frame.end_loop, which a Frame does not have (its field is loop).
WalkAnimation(spr, k, images, txt) ==
    IF k >= Len(spr.frames.items) THEN [err |-> "ok", images |-> images]
    ELSE IF spr.frames.items[k + 1].end THEN [err |-> "ok", images |-> images]
    ELSE IF spr.frames.items[k + 1].image >= Len(spr.images)
    THEN [err |-> "IndexError", images |-> images]
    ELSE IF txt THEN [err |-> "AttributeError", images |-> images]
    ELSE IF spr.frames.items[k + 1].loop
    THEN [err |-> "ok",
          images |-> IF IsIn(spr.images[spr.frames.items[k + 1].image + 1], images)
                     THEN images
                     ELSE Append(images, spr.images[spr.frames.items[k + 1].image + 1])]
    ELSE WalkAnimation(spr, k + 1,
                       IF IsIn(spr.images[spr.frames.items[k + 1].image + 1], images)
                       THEN images
                       ELSE Append(images, spr.images[spr.frames.items[k + 1].image + 1]),
                       txt)

\* get_images_in_animation as sprite.format.txt has it, reading frame.end_loop
get_images_in_animation_txt(spr, start_frame) == WalkAnimation(spr, start_frame, <<>>, TRUE)

\* Sprite.get_images_in_animation(start_frame): [err, images]
get_images_in_animation(spr, start_frame) == WalkAnimation(spr, start_frame, <<>>, FALSE)

RECURSIVE SaveAnimations(_, _, _, _, _, _, _)
RECURSIVE SaveAnimation(_, _, _, _, _, _, _, _)

\* the loop of save_as_pngs over enumerate(animation_index) from n on
SaveAnimations(spr, objs, images_dir, txt, n, seen_animations, st) ==
    IF st.err # "ok" \/ n >= Len(spr.animation_index.items) THEN st
    ELSE IF spr.animation_index.items[n + 1] \in seen_animations
    THEN SaveAnimations(spr, objs, images_dir, txt, n + 1, seen_animations, st)
    ELSE SaveAnimation(spr, objs, images_dir, txt, n, seen_animations, st,
                       WalkAnimation(spr, spr.animation_index.items[n + 1], <<>>, txt))

\* one pass of that loop, walk being what get_images_in_animation returned
SaveAnimation(spr, objs, images_dir, txt, n, seen_animations, st, walk) ==
    IF walk.err # "ok"
    THEN Progress(walk.err, st.fs, st.saved_details, st.saved_images)
    ELSE SaveAnimations(
             spr, objs, images_dir, txt, n + 1,
             seen_animations \cup {spr.animation_index.items[n + 1]},
             IF SelectSeq(walk.images, LAMBDA img : ~IsIn(img, st.saved_images)) = <<>>
             THEN st
             ELSE save_and_update_progress(
                      spr, objs, st,
                      SelectSeq(walk.images, LAMBDA img : ~IsIn(img, st.saved_images)),
                      join(images_dir, "animation", n), TRUE))

\* row_size: the images of one file of unused images
row_size == 20

RECURSIVE SaveUnused(_, _, _, _, _, _)
\* the loop of save_as_pngs over range(0, len(unused), row_size) from i on
SaveUnused(spr, objs, images_dir, unused, i, st) ==
    IF st.err # "ok" \/ i >= Len(unused) THEN st
    ELSE SaveUnused(spr, objs, images_dir, unused, i + row_size,
                    save_and_update_progress(
                        spr, objs, st,
                        SubSeq(unused, i + 1, IF i + row_size < Len(unused)
                                              THEN i + row_size ELSE Len(unused)),
                        join(images_dir, "unused", i \div row_size), TRUE))

\* unused of save_as_pngs: the images of the slots without details
Unused(spr, st) ==
    LET slots == SelectSeq([n \in 1..Len(spr.images) |-> n],
                           LAMBDA n : st.saved_details[n] = <<>>)
    IN [k \in 1..Len(slots) |-> spr.images[slots[k]]]

\* the branch of save_as_pngs for a sprite with animations, after the loop
\* over the animations
SaveRest(spr, objs, images_dir, st) ==
    IF st.err # "ok" THEN st
    ELSE SaveUnused(spr, objs, images_dir, Unused(spr, st), 0, st)

\* directions: the images of one file of a static sprite
directions == 5

RECURSIVE CurrentImages(_, _, _, _, _)
\* current_images of save_as_pngs: the images among the next five that are
\* not equal to a saved one or to one taken already
CurrentImages(static_images, objs, k, saved_images, current_images) ==
    IF k > Len(static_images) \/ k > directions THEN current_images
    ELSE CurrentImages(static_images, objs, k + 1, saved_images,
                       IF EqualIn(static_images[k], saved_images, objs)
                            \/ EqualIn(static_images[k], current_images, objs)
                       THEN current_images
                       ELSE Append(current_images, static_images[k]))

RECURSIVE SaveStatic(_, _, _, _, _, _)
\* the while loop of save_as_pngs for a sprite without animations
SaveStatic(spr, objs, images_dir, static_images, unit, st) ==
    IF st.err # "ok" \/ static_images = <<>> THEN st
    ELSE SaveStatic(spr, objs, images_dir,
                    SubSeq(static_images, directions + 1, Len(static_images)),
                    unit + 1,
                    save_and_update_progress(
                        spr, objs, st,
                        CurrentImages(static_images, objs, 1, st.saved_images, <<>>),
                        join(images_dir, "unit", unit), FALSE))

\* the end of save_as_pngs: assert all(saved_details); [err, fs, details]
Saved(st) ==
    IF st.err # "ok" THEN [err |-> st.err, fs |-> st.fs, details |-> <<>>]
    ELSE IF \E i \in 1..Len(st.saved_details) : st.saved_details[i] = <<>>
    THEN [err |-> "AssertionError", fs |-> st.fs, details |-> <<>>]
    ELSE [err |-> "ok", fs |-> st.fs,
          details |-> [i \in 1..Len(st.saved_details) |-> st.saved_details[i][1]]]

\* save_as_pngs after os.makedirs returned made; txt tells the copy of the
\* function in sprite.format.txt from the method
SaveInto(spr, objs, images_dir, txt, made) ==
    IF made.err # "ok" THEN [err |-> made.err, fs |-> made.fs, details |-> <<>>]
    ELSE IF spr.has_animations
    THEN Saved(SaveRest(spr, objs, images_dir,
                        SaveAnimations(spr, objs, images_dir, txt, 0, {},
                                       Progress("ok", made.fs,
                                                [i \in 1..Len(spr.images) |-> <<>>],
                                                <<>>))))
    ELSE Saved(SaveStatic(spr, objs, images_dir, spr.images, 0,
                          Progress("ok", made.fs,
                                   [i \in 1..Len(spr.images) |-> <<>>], <<>>)))

\* Sprite.save_as_pngs(images_dir): [err, fs, details]
save_as_pngs(spr, objs, fs, images_dir) ==
    SaveInto(spr, objs, images_dir, FALSE, makedirs(fs, images_dir))

\* sprite.format.txt.save_images(sprite, images_dir): [err, fs, details]
save_images(spr, objs, fs, images_dir) ==
    SaveInto(spr, objs, images_dir, TRUE, makedirs(fs, images_dir))

----------------------------------------------------------------------------
(* sprite.format.json and sprite.format.txt: save                          *)

\* what json.dump and the writes of the text adapter put into the document
\* file: the image details, the frames and the animations written
DocumentText(details, frames, animations) ==
    [images |-> details, frames |-> frames, animations |-> animations]

\* sprite.format.json.save after save_as_pngs returned saved: a
\* FileExistsError closes and removes the json file and is raised again,
\* any other error leaves through the with statement, which closes the file
DumpJson(spr, fs, path, saved) ==
    IF saved.err = "FileExistsError"
    THEN [err |-> saved.err, fs |-> remove(saved.fs, path)]
    ELSE IF saved.err # "ok" THEN [err |-> saved.err, fs |-> saved.fs]
    ELSE [err |-> "ok",
          fs |-> Put(saved.fs, path,
                     Written(<<DocumentText(saved.details, spr.frames,
                                            spr.animation_index)>>))]

\* sprite.format.json.save(sprite, path): [err, fs]
json_save(spr, objs, fs, path) ==
    IF open_exclusive(Lookup(fs, path)) # "ok"
    THEN [err |-> open_exclusive(Lookup(fs, path)), fs |-> fs]
    ELSE DumpJson(spr, fs, path,
                  save_as_pngs(spr, objs, Put(fs, path, Written(<<>>)),
                               splitext(path)))

\* the number of titles itertools.product gives for the animations
Titles(spr) ==
    IF spr.type = "UNIT" THEN 4 * 8
    ELSE 4 * 2 * (Len(spr.animation_index.items) \div 8)

\* sprite.format.txt.save after save_images returned saved: the text file is
\* created exclusively and written; next(titles) raises StopIteration when
\* there are more animations than titles
WriteText(spr, path, saved) ==
    IF saved.err # "ok" THEN [err |-> saved.err, fs |-> saved.fs]
    ELSE IF open_exclusive(Lookup(saved.fs, path)) # "ok"
    THEN [err |-> open_exclusive(Lookup(saved.fs, path)), fs |-> saved.fs]
    ELSE IF ~spr.has_animations
    THEN [err |-> "ok",
          fs |-> Put(saved.fs, path,
                     Written(<<DocumentText(saved.details, NoneList, NoneList)>>))]
    ELSE IF Len(spr.animation_index.items) > Titles(spr)
    THEN [err |-> "StopIteration",
          fs |-> Put(saved.fs, path,
                     Written(<<DocumentText(
                                   saved.details, spr.frames,
                                   List(SubSeq(spr.animation_index.items, 1,
                                               Titles(spr))))>>))]
    ELSE [err |-> "ok",
          fs |-> Put(saved.fs, path,
                     Written(<<DocumentText(saved.details, spr.frames,
                                            spr.animation_index)>>))]

\* sprite.format.txt.save(sprite, path): [err, fs]
txt_save(spr, objs, fs, path) ==
    WriteText(spr, path, save_images(spr, objs, fs, splitext(path)))

----------------------------------------------------------------------------
(* Saving a document with the json and the text adapter, to a path that    *)
(* exists or not, next to an image directory that exists or not.           *)

\* frames that show the first or the second image slot, with and without
\* the end and the loop flag
WalkFrames ==
    {Frame(image, 0, FALSE, loop, FALSE, end, FALSE) :
        image \in 0..1, loop \in BOOLEAN, end \in BOOLEAN}

\* the images of these documents: two objects that look the same, one object
\* in two slots, two objects that look different, and a single slot
WalkImages ==
    {[objs |-> <<Image(1, 1, <<<<0, 0, 0, 0>>>>), Image(1, 1, <<<<0, 0, 0, 0>>>>)>>,
      images |-> <<1, 2>>],
     [objs |-> <<Image(1, 1, <<<<0, 0, 0, 0>>>>)>>, images |-> <<1, 1>>],
     [objs |-> <<Image(1, 1, <<<<0, 0, 0, 0>>>>), Image(1, 1, <<<<255, 255, 255, 255>>>>)>>,
      images |-> <<2, 1>>],
     [objs |-> <<Image(1, 1, <<<<0, 0, 0, 0>>>>)>>, images |-> <<1>>]}

\* the animations over these frames: one or several, in any order
WalkAnimations ==
    {a \in [frames : {List(f) : f \in SeqsOf(WalkFrames, 1, MaxFrames)},
            animation_index : {List(x) : x \in SeqsOf(0..(MaxFrames - 1), 1, MaxAnimations)}] :
        Constructible(<<>>, a.frames, a.animation_index)}

\* an animation whose first frame is an end frame: it shows nothing
EndedAnimations ==
    [frames |-> List(<<Frame(0, 0, TRUE, FALSE, FALSE, TRUE, FALSE)>>),
     animation_index |-> List(<<0>>)]

\* the extensions of the paths a document is saved to
Extensions == {".json", ".txt", ""}

\* the file systems before the call: the destination and the name of the
\* image directory each taken already or not
FileSystems(path) ==
    {fs \in UNION {[S -> {Directory, Written(<<>>)}] : S \in SUBSET {path, splitext(path)}} :
        path \in DOMAIN fs /\ path # splitext(path) => fs[path].kind = "file"}

InitAdapter ==
    /\ pc = "document"
    /\ \/ /\ \E d \in DocumentImages \cup {SimpleDocumentImages},
                a \in DocumentAnimations \cup SimpleDocumentAnimations \cup {EndedAnimations} :
                  /\ d = SimpleDocumentImages \/ a \in SimpleDocumentAnimations
                  /\ heap = d.objs
                  /\ sprite = Sprite(d.images, a.frames, a.animation_index)
          /\ \E ext \in Extensions :
               /\ arg = Path("sprite", ext, "", 0)
               /\ disk \in FileSystems(arg)
       \/ /\ \E d \in WalkImages, a \in WalkAnimations :
                  /\ heap = d.objs
                  /\ sprite = Sprite(d.images, a.frames, a.animation_index)
          /\ arg = Path("sprite", ".json", "", 0)
          /\ disk = <<>>
    /\ first = None
    /\ ret = None
    /\ outcome = "none"
    /\ plan = None

\* sprite.format.json.save(sprite, path)
JsonSave ==
    /\ pc = "document"
    /\ LET r == json_save(sprite, heap, disk, arg)
       IN /\ disk' = r.fs
          /\ outcome' = r.err
          /\ pc' = IF r.err = "ok" THEN "json_saved" ELSE "json_failed"
    /\ UNCHANGED <<arg, ret, sprite, heap, plan, first>>

\* sprite.format.txt.save(sprite, path)
TxtSave ==
    /\ pc = "document"
    /\ LET r == txt_save(sprite, heap, disk, arg)
       IN /\ disk' = r.fs
          /\ outcome' = r.err
          /\ pc' = IF r.err = "ok" THEN "txt_saved" ELSE "txt_failed"
    /\ UNCHANGED <<arg, ret, sprite, heap, plan, first>>

NextAdapter == JsonSave \/ TxtSave

SpecAdapter == InitAdapter /\ [][NextAdapter]_vars

C13_TxtNoPartialOutput ==
    [][(pc = "document" /\ pc' = "txt_failed" /\ outcome' = "FileExistsError")
          => disk' = disk]_vars

----------------------------------------------------------------------------
(* The encoder's image records on the small images of SpecImage.           *)

\* the bounding box (left, top, right, bottom) an image record holds
WrittenBox(bytes) == UnpackLs(SubSeq(bytes, 25, 40))

\* the length field an image record holds
WrittenSize(bytes) == UnpackL(SubSeq(bytes, 42, 45))

\* the minimal rectangle with every pixel that is not (255, 0, 255, 0), the
\* empty rectangle (0, 0, 0, 0) when there is none
NonSentinelBox(image) ==
    LET xs == {x \in 0..(image.width - 1) :
                  \E y \in 0..(image.height - 1) :
                      PixelAt(image, x, y) # <<255, 0, 255, 0>>}
        ys == {y \in 0..(image.height - 1) :
                  \E x \in 0..(image.width - 1) :
                      PixelAt(image, x, y) # <<255, 0, 255, 0>>}
    IN IF xs = {} THEN <<0, 0, 0, 0>>
       ELSE <<Min(xs), Min(ys), MaxOf(xs) + 1, MaxOf(ys) + 1>>

\* C15: the bounding box in the image record is the minimal rectangle with
\* every pixel that differs from the sentinel (255, 0, 255, 0), the mask
\* being compared too.
C15_BoundingBox ==
    pc = "image_encoded" => WrittenBox(ret) = NonSentinelBox(arg)

\* C18 as claimed: the record of an image of sentinel pixels only has the
\* bounding box (0, 0, 0, 0), a length field of zero and no row data.
C18_ZeroLength ==
    (pc = "image_encoded" /\ ~HasInk(arg)) =>
        /\ WrittenBox(ret) = <<0, 0, 0, 0>>
        /\ WrittenSize(ret) = 0
        /\ Len(ret) <= 45 + 10

\* C18 amended: the record of an image of sentinel pixels only is the image
\* header with the bounding box (0, 0, 0, 0), the background byte 0xFD and
\* the length field 10, followed by the 10 zero bytes of the trailer and by
\* nothing else: no row header and no pixel word.
C18_HeaderAndTrailer ==
    (pc = "image_encoded" /\ ~HasInk(arg)) =>
        ret = Repeat(0, 16) \o PackLs(<<arg.width, arg.height, 0, 0, 0, 0>>)
                \o <<253>> \o PackL(10) \o Repeat(0, 10)

\* the record of the largest image of sentinel pixels only
C18_Witness ==
    /\ pc = "image_encoded"
    /\ ~HasInk(arg)
    /\ arg.width = MaxWidth /\ arg.height = MaxHeight
    /\ Len(ret) = 55

\* the columns of row y, within the box, whose pixel is not the sentinel
RowInk(image, box, y) ==
    {x \in box[1]..(box[3] - 1) : PixelAt(image, x, y) # <<255, 0, 255, 0>>}

\* mask<<15 | (R>>3)<<10 | (G>>3)<<5 | (B>>3)
ColorWord(p) ==
    (IF p[4] # 0 THEN 32768 ELSE 0)
        + (p[1] \div 8) * 1024 + (p[2] \div 8) * 32 + (p[3] \div 8)

\* the bytes of row y of the box: the header (0, 0) for a row of sentinel
\* pixels, else the header and the pixels from the first to the last pixel
\* that is not the sentinel
RowBytes(image, box, y) ==
    LET ink == RowInk(image, box, y)
    IN IF ink = {} THEN PackLs(<<0, 0>>)
       ELSE PackLs(<<2 * Min(ink), 2 * (MaxOf(ink) - Min(ink) + 1)>>)
              \o PackHs([i \in 1..(MaxOf(ink) - Min(ink) + 1) |->
                            ColorWord(PixelAt(image, Min(ink) + i - 1, y))])

\* C19: between header and trailer the record holds, for each row of the
\* written bounding box in order, one row header and the row's pixels from
\* the first to the last non-sentinel pixel, and (0, 0) alone for a row of
\* sentinel pixels.
C19_RowEncoding ==
    pc = "image_encoded" =>
        SubSeq(ret, 46, Len(ret) - 10)
            = Concat([k \in 1..(WrittenBox(ret)[4] - WrittenBox(ret)[2]) |->
                         RowBytes(arg, WrittenBox(ret), WrittenBox(ret)[2] + k - 1)])

\* a row with a sentinel pixel between two others has been encoded whole
C19_Witness ==
    /\ pc = "image_encoded"
    /\ arg.width = 3
    /\ RgbDiffers(arg.data[1]) /\ arg.data[2] = transparent /\ RgbDiffers(arg.data[3])
    /\ SubSeq(ret, 46, 53) = PackLs(<<0, 6>>)

----------------------------------------------------------------------------
(* The background byte of an image record, for every byte.                 *)

InitBackground ==
    /\ pc = "background"
    /\ arg \in 0..255
    /\ ret = None
    /\ IdleRest

\* the background colour of _read_spr_image is derived
DecodeBackground ==
    /\ pc = "background"
    /\ ret' = BackgroundOf(arg)
    /\ pc' = "background_decoded"
    /\ UNCHANGED <<arg, rest>>

NextBackground == DecodeBackground

SpecBackground == InitBackground /\ [][NextBackground]_vars

\* bit k of a byte
BitOf(b, k) == (b \div (2 ^ k)) % 2

\* a 5-bit channel widened to 8 bits: (c << 3) | (c >> 2)
Widened(c) == c * 8 + c \div 4

\* C16 as claimed: the low 5 bits of the byte are the channel value and the
\* other 3 bits, in some order, the flags of R, G and B.
C16_LowBitsMagnitude ==
    pc = "background_decoded" =>
        \E r, g, b \in 5..7 :
            /\ r # g /\ g # b /\ r # b
            /\ ret = <<BitOf(arg, r) * Widened(arg % 32),
                       BitOf(arg, g) * Widened(arg % 32),
                       BitOf(arg, b) * Widened(arg % 32), 0>>

\* C16 amended: the high 5 bits of the byte (b >> 3) are the channel value
\* and bits 0, 1 and 2 the flags of R, G and B; a flagged channel is the
\* widened channel value, the others are 0, and the mask is off.
C16_HighBitsMagnitude ==
    pc = "background_decoded" =>
        ret = <<BitOf(arg, 0) * Widened(arg \div 8),
                BitOf(arg, 1) * Widened(arg \div 8),
                BitOf(arg, 2) * Widened(arg \div 8), 0>>

\* the byte the encoder writes has been decoded to the sentinel pixel
C16_Witness ==
    pc = "background_decoded" /\ arg = 253 /\ ret = <<255, 0, 255, 0>>

\* the background bytes of the image records a file holds
BackgroundBytes(bytes) ==
    LET starts == RecordStarts(bytes, HeaderOf(bytes)[3])
    IN {bytes[HeaderOf(bytes)[3] + starts[k] + 41] : k \in 1..Len(starts)}

\* C17: every image record save writes has the background byte 0xFD,
\* whatever byte the image was decoded from, and _read_spr_image decodes
\* that byte to the sentinel pixel (255, 0, 255, 0).
C17_CanonicalBackground ==
    pc = "saved" =>
        /\ BackgroundBytes(disk[arg].bytes) \subseteq {253}
        /\ BackgroundOf(253) = <<255, 0, 255, 0>>

\* a file with an image record of background byte 0 has been loaded and
\* saved, and the file written has an image record
C17_Witness ==
    /\ pc = "saved"
    /\ BackgroundBytes(disk["in"].bytes) = {0}
    /\ BackgroundBytes(disk[arg].bytes) = {253}

\* the words of the animation section of an undamaged plan's file
AnimationSection(p) ==
    [k \in 1..Len(p.anim.entries) |-> FirstFrameOffset(p) + 4 * p.anim.entries[k]]
        \o p.anim.words

\* the lowest of the words before position index (from 0), the first word
\* standing for itself
RunningMinimum(words, index) == Min({words[k] : k \in 1..Max(index, 1)})

\* no position of the animation section has the running minimum for its
\* file address
BoundaryMissing(p) ==
    /\ p.damage = Undamaged
    /\ p.anim.present
    /\ \A index \in 0..(Len(AnimationSection(p)) - 1) :
          FILE_HEADER_SIZE + 4 * index # RunningMinimum(AnimationSection(p), index)

\* C21: when no position of the animation section has the running minimum of
\* the words before it for its file address, load fails with a FormatError.
C21_BoundaryNotFound ==
    (pc \in {"loaded", "load_failed"} /\ BoundaryMissing(plan))
        => (pc = "load_failed" /\ outcome = "FormatError")

\* the slots that hold an object no earlier slot holds
FirstSlots == {i \in 1..Len(sprite.images) :
                  \A j \in 1..(i - 1) : sprite.images[j] # sprite.images[i]}

\* C22: the image index save writes has len(images) + 1 entries, the last is
\* the number of image-data bytes written, every other one is the offset of
\* an image record, and the entries of the first occurrences start at 0 and
\* increase strictly in slot order.
C22_ImageIndex ==
    pc = "saved" =>
        LET out == disk[arg].bytes
            n == Len(sprite.images)
        IN /\ HeaderOf(out)[3] - HeaderOf(out)[2] = 4 * (n + 1)
           /\ IndexEntry(out, n + 1) = Len(out) - HeaderOf(out)[3]
           /\ \A i \in 1..n :
                 \E k \in 1..Len(RecordStarts(out, HeaderOf(out)[3])) :
                     RecordStarts(out, HeaderOf(out)[3])[k] = IndexEntry(out, i)
           /\ \A i, j \in FirstSlots : i < j => IndexEntry(out, i) < IndexEntry(out, j)
           /\ n > 0 => IndexEntry(out, 1) = 0

\* three slots of which the last repeats the first have been saved as two
\* records
C22_Witness ==
    /\ pc = "saved"
    /\ Len(sprite.images) = 3
    /\ FirstSlots = {1, 2}
    /\ IndexEntry(disk[arg].bytes, 1) = 0
    /\ IndexEntry(disk[arg].bytes, 3) = 0
    /\ IndexEntry(disk[arg].bytes, 2) > 0
    /\ IndexEntry(disk[arg].bytes, 4) > IndexEntry(disk[arg].bytes, 2)

----------------------------------------------------------------------------
(* The queries of a document: get_images_in_animation and                  *)
(* find_matching_image_indexes on documents whose frames carry every       *)
(* combination of the end and loop flags, and save of the same documents.  *)

MaxWalk == 3

InitAnimation ==
    /\ pc = "loaded"
    /\ \E d \in WalkImages, frames \in SeqsOf(WalkFrames, 1, MaxWalk) :
         /\ heap = d.objs
         /\ sprite = Sprite(d.images, List(frames), List(<<0>>))
    /\ first = [sprite |-> sprite, heap |-> heap]
    /\ disk = [p \in Paths |-> IF p = "in" THEN File(<<>>) ELSE NoFile]
    /\ arg = None
    /\ ret = None
    /\ outcome = "none"
    /\ plan = None

\* sprite.get_images_in_animation(start_frame)
GetImagesInAnimation ==
    /\ pc = "loaded"
    /\ \E start_frame \in 0..Len(sprite.frames.items) :
         LET r == get_images_in_animation(sprite, start_frame)
         IN /\ arg' = start_frame
            /\ ret' = r.images
            /\ outcome' = r.err
            /\ pc' = IF r.err = "ok" THEN "walked" ELSE "walk_failed"
            /\ sprite' = AfterAppends(sprite, <<Appends("local", r.images)>>)
    /\ UNCHANGED <<disk, heap, plan, first>>

\* list(sprite.find_matching_image_indexes(image, identical)) for an image
\* of the document
FindMatchingImageIndexes ==
    /\ pc = "loaded"
    /\ \E image \in 1..Len(heap), identical \in BOOLEAN :
         /\ arg' = [image |-> image, identical |-> identical]
         /\ ret' = find_matching_image_indexes(sprite, heap, image, identical)
    /\ outcome' = "ok"
    /\ pc' = "matched"
    /\ UNCHANGED <<disk, sprite, heap, plan, first>>

NextAnimation == GetImagesInAnimation \/ FindMatchingImageIndexes \/ Save

SpecAnimation == InitAnimation /\ [][NextAnimation]_vars

\* the positions (from 1) of the frames a walk from start_frame visits: up to
\* the frame before the first end frame, or up to the first loop frame
Visited(frames, start_frame) ==
    LET stops == {k \in (start_frame + 1)..Len(frames) : frames[k].end \/ frames[k].loop}
    IN IF stops = {} THEN (start_frame + 1)..Len(frames)
       ELSE IF frames[Min(stops)].end THEN (start_frame + 1)..(Min(stops) - 1)
       ELSE (start_frame + 1)..Min(stops)

\* the object frame k of the document shows
Shown(k) == sprite.images[sprite.frames.items[k].image + 1]

\* C23: get_images_in_animation(start_frame) returns the objects the visited
\* frames show, each once by identity and in order of first use; the walk
\* stops before the first end frame and after the first loop frame, and a
\* frame with both flags is an end frame.
C23_AnimationWalk ==
    pc \in {"walked", "walk_failed"} =>
        LET visited == Visited(sprite.frames.items, arg)
            FirstUse(o) == Min({k \in visited : Shown(k) = o})
        IN (\A k \in visited : sprite.frames.items[k].image < Len(sprite.images)) =>
              /\ pc = "walked"
              /\ {ret[i] : i \in 1..Len(ret)} = {Shown(k) : k \in visited}
              /\ \A i, j \in 1..Len(ret) :
                    i < j => ret[i] # ret[j] /\ FirstUse(ret[i]) < FirstUse(ret[j])

\* a walk over a frame and a loop frame that show two objects with the same
\* pixels, before a third frame
C23_Witness ==
    /\ pc = "walked"
    /\ arg = 0
    /\ Len(sprite.frames.items) = 3
    /\ sprite.frames.items[2].loop /\ ~sprite.frames.items[2].end
    /\ Len(ret) = 2
    /\ ret[1] # ret[2]
    /\ heap[ret[1]] = heap[ret[2]]

----------------------------------------------------------------------------
(* The list save_as_pngs returns, as the json adapter writes it.           *)

\* every frame of the document refers to an image slot
FramesValid ==
    sprite.has_animations =>
        \A k \in 1..Len(sprite.frames.items) :
            sprite.frames.items[k].image < Len(sprite.images)

RECURSIVE PastedLeft(_, _)
\* the x coordinate of image n (from 1) of a picture, inside its border
PastedLeft(picture, n) ==
    IF n <= 1 THEN 1
    ELSE PastedLeft(picture, n - 1) + picture.images[n - 1].width + 1

\* the images of the picture at path that details point at
PointedAt(fs, details) ==
    IF details.image_path \notin DOMAIN fs THEN {}
    ELSE {fs[details.image_path].content[1].images[n] :
            n \in {n \in 1..Len(fs[details.image_path].content[1].images) :
                      PastedLeft(fs[details.image_path].content[1], n) = details.image_x}}

\* the list of details the json file at path holds
WrittenDetails(fs, path) == fs[path].content[1].images

\* C24: for a document whose frames refer to existing image slots,
\* save_as_pngs fails only when the directory exists and never on its
\* assertion; the list it returns has one entry per image slot, each pointing
\* at the place of a PNG file where that slot's image is, and slots that hold
\* the same object get the same details.
C24_DetailsPerSlot ==
    /\ (pc = "json_failed" /\ FramesValid) => outcome = "FileExistsError"
    /\ pc = "json_saved" =>
          /\ Len(WrittenDetails(disk, arg)) = Len(sprite.images)
          /\ \A i \in 1..Len(sprite.images) :
                PointedAt(disk, WrittenDetails(disk, arg)[i]) = {heap[sprite.images[i]]}
          /\ \A i, j \in 1..Len(sprite.images) :
                sprite.images[i] = sprite.images[j]
                    => WrittenDetails(disk, arg)[i] = WrittenDetails(disk, arg)[j]

\* a static sprite of three slots, the second an object of its own that
\* looks like the first, has been saved: the second slot has the first's details
C24_Witness ==
    /\ pc = "json_saved"
    /\ ~sprite.has_animations
    /\ Len(sprite.images) = 3
    /\ sprite.images[1] # sprite.images[2]
    /\ heap[sprite.images[1]] = heap[sprite.images[2]]
    /\ WrittenDetails(disk, arg)[1] = WrittenDetails(disk, arg)[2]

\* the PNG files of a file system
Pictures(fs) == {p \in DOMAIN fs : p.kind # ""}

RECURSIVE PastedIn(_, _)
\* the number of images pasted into the PNG files at paths
PastedIn(fs, paths) ==
    IF paths = {} THEN 0
    ELSE LET p == CHOOSE q \in paths : TRUE
         IN Len(fs[p].content[1].images) + PastedIn(fs, paths \ {p})

\* C25: for a sprite with animations, save_as_pngs pastes as many images
\* into the PNG files as the image slots hold distinct objects: each object
\* once, whether an animation shows it or not.
C25_WrittenOnce ==
    (pc = "json_saved" /\ sprite.has_animations) =>
        PastedIn(disk, Pictures(disk)) = Cardinality(SlotObjects)

\* C26: save, whether it succeeds or fails, get_images_in_animation and
\* find_matching_image_indexes leave the document as it was: the same
\* objects in the same slots, the same frames and the same animation index.
C26_DocumentUnchanged ==
    pc \in {"saved", "save_failed", "walked", "walk_failed", "matched"} =>
        /\ sprite = first.sprite
        /\ heap = first.heap

\* a document with three frames has been saved
C26_Witness ==
    /\ pc = "saved"
    /\ Len(first.sprite.frames.items) = 3
    /\ Len(first.sprite.images) = 2
    /\ sprite = first.sprite

\* C27: a document load returns with animations has a non-empty
\* animation_index without negative entries whose lowest entry is 0, and
\* each of its frames has image in 0..1023 and transparency in 0..7.
C27_IndexAndFrameRanges ==
    (pc \in {"loaded", "reloaded"} /\ sprite.has_animations) =>
        /\ sprite.animation_index.items # <<>>
        /\ \A i \in 1..Len(sprite.animation_index.items) :
              sprite.animation_index.items[i] >= 0
        /\ \E i \in 1..Len(sprite.animation_index.items) :
              sprite.animation_index.items[i] = 0
        /\ \A k \in 1..Len(sprite.frames.items) :
              /\ sprite.frames.items[k].image \in 0..1023
              /\ sprite.frames.items[k].transparency \in 0..7

\* a file whose index entries are out of order and whose frame words have
\* every bit set has been loaded
C27_Witness ==
    /\ pc = "loaded"
    /\ plan.anim.entries = <<1, 0>>
    /\ plan.anim.words = <<-1, -1>>
    /\ sprite.animation_index = List(<<1, 0>>)
    /\ sprite.frames.items[1].image = 1023
    /\ sprite.frames.items[1].transparency = 7

----------------------------------------------------------------------------
(* The two loops of decoding, pass by pass: the while loop of load over    *)
(* the image records and the while loop of _read_spr_image over the rows   *)
(* of a record, on files whose records declare any size and whose rows     *)
(* declare any length.                                                     *)

MaxRows == 2

\* what the decoder holds between two passes: the read position, the size
\* left of the record being read, that record's width, height and bottom and
\* the number of pixels collected for it; a pass that raises leaves the
\* exception in err, short telling whether a read returned less than asked
Decoding(pos, size, width, height, bottom, count) ==
    [pos |-> pos, size |-> size, width |-> width, height |-> height,
     bottom |-> bottom, count |-> count, err |-> "ok", short |-> FALSE]

Raised(st, err, short) == [st EXCEPT !.err = err, !.short = short]

\* _read_spr_image up to the while loop: the header is read and unpacked,
\* image_data starts with the lines above the bounding box
begin_image(file, st) ==
    LET hdr == Read(file, st.pos, IMAGE_HEADER_SIZE)
        f == UnpackLs(SubSeq(hdr, 17, 40))
    IN IF Len(hdr) # IMAGE_HEADER_SIZE THEN Raised(st, "struct.error", TRUE)
       ELSE Decoding(st.pos + IMAGE_HEADER_SIZE, UnpackL(SubSeq(hdr, 42, 45)),
                     f[1], f[2], f[6], Max(f[1], 0) * Max(f[4], 0))

\* one pass of the while loop of _read_spr_image that leaves size as it was
\* when the row header has been read
row_pass_keeping_size(file, st) ==
    LET hdr == Read(file, st.pos, IMAGE_ROW_HEADER_SIZE)
        row_bytes == UnpackL(SubSeq(hdr, 5, 8))
        raw == IF row_bytes <= 0 THEN <<>>
               ELSE Read(file, st.pos + IMAGE_ROW_HEADER_SIZE, row_bytes)
    IN IF Len(hdr) # IMAGE_ROW_HEADER_SIZE THEN Raised(st, "struct.error", TRUE)
       ELSE IF row_bytes < 0 \/ Len(raw) # 2 * (row_bytes \div 2)
       THEN Raised(st, "struct.error", Len(raw) < row_bytes)
       ELSE [st EXCEPT !.pos = @ + IMAGE_ROW_HEADER_SIZE + Len(raw),
                       !.size = @ - row_bytes]

\* one pass of the while loop of _read_spr_image: the row header is read and
\* size lowered by its length; row_bytes bytes are read and unpacked as
\* 16-bit words and size is lowered by row_bytes.  read raises ValueError for
\* a negative count other than -1, which reads to the end of the file
row_pass(file, st) ==
    LET hdr == Read(file, st.pos, IMAGE_ROW_HEADER_SIZE)
        empty_bytes == UnpackL(SubSeq(hdr, 1, 4))
        row_bytes == UnpackL(SubSeq(hdr, 5, 8))
        raw == IF row_bytes = 0 THEN <<>>
               ELSE IF row_bytes = -1
               THEN Read(file, st.pos + IMAGE_ROW_HEADER_SIZE, Len(file))
               ELSE Read(file, st.pos + IMAGE_ROW_HEADER_SIZE, row_bytes)
    IN IF Len(hdr) # IMAGE_ROW_HEADER_SIZE THEN Raised(st, "struct.error", TRUE)
       ELSE IF row_bytes < -1 THEN Raised(st, "ValueError", FALSE)
       ELSE IF row_bytes # 0 /\ (row_bytes < 0 \/ Len(raw) # 2 * (row_bytes \div 2))
       THEN Raised(st, "struct.error", row_bytes > 0 /\ Len(raw) < row_bytes)
       ELSE [st EXCEPT !.pos = @ + IMAGE_ROW_HEADER_SIZE + Len(raw),
                       !.size = @ - IMAGE_ROW_HEADER_SIZE - row_bytes,
                       !.count = @ + (IF empty_bytes # 0
                                      THEN Max(empty_bytes \div 2, 0) ELSE 0)
                                   + Len(raw) \div 2
                                   + Max(st.width - ((empty_bytes + row_bytes) \div 2), 0)]

\* _read_spr_image after the while loop: the lines below the bounding box,
\* the seek over the trailer, Image.new and putdata, which raises TypeError
\* for more items than pixels
end_image(st) ==
    LET count == st.count + Max(st.width, 0) * Max(st.height - st.bottom, 0)
    IN IF count > st.width * st.height
       THEN Raised([st EXCEPT !.pos = @ + TRAILER_SIZE, !.count = count],
                   "TypeError", FALSE)
       ELSE [st EXCEPT !.pos = @ + TRAILER_SIZE, !.count = count]

\* a row as a file holds it: the two header fields and the bytes after them
RawRow(empty_bytes, row_bytes, data) == PackLs(<<empty_bytes, row_bytes>>) \o data

\* rows with one word, with no word, with an odd length, with a negative
\* length and with a length beyond their data
RawRows ==
    {RawRow(0, 2, <<0, 0>>), RawRow(2, 0, <<>>), RawRow(0, 3, <<0, 0, 0>>),
     RawRow(0, -1, <<>>), RawRow(0, -4, <<>>), RawRow(0, 4, <<0, 0>>)}

\* a 2x1 image record with the rows given, declaring size for its length
RawRecord(size, rows) ==
    PackImageHeader(2, 1, 0, 0, 2, 1, BACKGROUND_BYTE, size)
        \o Concat(rows) \o Repeat(0, TRAILER_SIZE)

\* the sizes a record of these rows declares: its own, that of a row more
\* or a byte less, the trailer alone, a negative one
DeclaredSizes(rows) ==
    {SumLen(rows) + TRAILER_SIZE, SumLen(rows) + TRAILER_SIZE + IMAGE_ROW_HEADER_SIZE,
     SumLen(rows) + TRAILER_SIZE - 1, TRAILER_SIZE, -1}

\* a 0x0 image record without rows
EmptyRecord ==
    PackImageHeader(0, 0, 0, 0, 0, 0, BACKGROUND_BYTE, TRAILER_SIZE)
        \o Repeat(0, TRAILER_SIZE)

\* a file without animations and without image slots whose image index
\* holds last alone, before the image data
RawFile(last, data) == PackLs(<<0, 12, 16>>) \o PackLs(<<last>>) \o data

InitDecode ==
    /\ pc = "record"
    /\ \E rows \in SeqsOf(RawRows, 0, MaxRows) :
       \E size \in DeclaredSizes(rows) :
       \E more \in {<<>>, EmptyRecord} :
       \E last \in {Len(RawRecord(size, rows) \o more), Len(RawRecord(size, rows)), 1} :
            disk = [p \in Paths |->
                       IF p = "in" THEN File(RawFile(last, RawRecord(size, rows) \o more))
                       ELSE NoFile]
    /\ arg = [images_offset |-> HeaderOf(disk["in"].bytes)[3],
              last |-> IndexEntry(disk["in"].bytes, 1)]
    /\ ret = Decoding(arg.images_offset, 0, 0, 0, 0, 0)
    /\ sprite = None
    /\ heap = <<>>
    /\ outcome = "none"
    /\ plan = None
    /\ first = None

\* a pass of the while loop of load up to the while loop of _read_spr_image
BeginImage ==
    /\ pc = "record"
    /\ IF ret.pos - arg.images_offset = arg.last
       THEN /\ pc' = "decoded"
            /\ outcome' = "ok"
            /\ ret' = ret
       ELSE /\ ret' = begin_image(disk["in"].bytes, ret)
            /\ outcome' = ret'.err
            /\ pc' = IF ret'.err = "ok" THEN "rows" ELSE "decode_failed"
    /\ UNCHANGED <<arg, disk, sprite, heap, plan, first>>

\* a pass of the while loop of _read_spr_image
ReadRowPass ==
    /\ pc = "rows"
    /\ ret.size > TRAILER_SIZE
    /\ ret' = row_pass(disk["in"].bytes, ret)
    /\ outcome' = ret'.err
    /\ pc' = IF ret'.err = "ok" THEN "rows" ELSE "decode_failed"
    /\ UNCHANGED <<arg, disk, sprite, heap, plan, first>>

\* the rest of _read_spr_image and the return into the loop of load
EndImage ==
    /\ pc = "rows"
    /\ ret.size <= TRAILER_SIZE
    /\ ret' = end_image(ret)
    /\ outcome' = ret'.err
    /\ pc' = IF ret'.err = "ok" THEN "record" ELSE "decode_failed"
    /\ UNCHANGED <<arg, disk, sprite, heap, plan, first>>

NextDecode == BeginImage \/ ReadRowPass \/ EndImage

\* the passes follow one another without waiting
SpecDecode == InitDecode /\ [][NextDecode]_vars /\ WF_vars(NextDecode)

\* the passes end as load on the same file ends
DecodeAgrees ==
    /\ pc = "decoded" => load(disk["in"].bytes, <<>>).err = "ok"
    /\ pc = "decode_failed" => load(disk["in"].bytes, <<>>).err = outcome

C29_PositionAgreement ==
    pc \in {"reloaded", "reload_failed"} =>
        LET out == disk["out"].bytes
            n == Len(first.sprite.images)
            read == ReadImages(out, HeaderOf(out)[3], HeaderOf(out)[3],
                               IndexEntry(out, n + 1), <<>>, <<>>)
        IN /\ pc = "reloaded"
           /\ read.err = "ok"
           /\ read.image_offsets = RecordStarts(out, HeaderOf(out)[3])
           /\ {read.image_offsets[k] : k \in 1..Len(read.image_offsets)}
                 = {IndexEntry(out, i) : i \in 1..n}
           /\ IndexEntry(out, n + 1) = Len(out) - HeaderOf(out)[3]

\* a file of two records of different lengths has been written and read again
C29_Witness ==
    /\ pc = "reloaded"
    /\ Len(sprite.images) = 3
    /\ RecordStarts(disk["out"].bytes, HeaderOf(disk["out"].bytes)[3]) = <<0, 55>>
    /\ IndexEntry(disk["out"].bytes, 4) = 120

----------------------------------------------------------------------------
(* Regenerating a file: a well-formed file is loaded and saved, and what   *)
(* was saved is loaded and saved once more, to a path of its own.          *)

InitRegenerate ==
    /\ pc = "file"
    /\ \/ \E ip \in ImagePlans, anim \in {NoAnimations, SimpleAnimations} :
            plan = Plan(ip[1], ip[2], anim, Undamaged)
       \/ \E anim \in AnimationPlans :
            plan = Plan(SimpleImages[1], SimpleImages[2], anim, Undamaged)
    /\ Plausible(plan)
    /\ WellFormed(plan)
    /\ disk = [p \in Paths |-> IF p = "in" THEN File(FileOf(plan)) ELSE NoFile]
    /\ arg = None
    /\ ret = None
    /\ sprite = None
    /\ heap = <<>>
    /\ outcome = "none"
    /\ first = None

\* save(sprite, path) for the document loaded from the saved file, to a
\* path that does not exist
SaveAgain ==
    /\ pc = "reloaded"
    /\ LET r == save(sprite, heap, NoFile)
       IN /\ arg' = "again"
          /\ outcome' = r.err
          /\ disk' = [p \in DOMAIN disk \cup {"again"} |->
                         IF p = "again" THEN r.file ELSE disk[p]]
          /\ pc' = IF r.err = "ok" THEN "resaved" ELSE "resave_failed"
          /\ sprite' = AfterAppends(sprite, IF r.err = "FileExistsError" THEN <<>>
                                              ELSE save_appends(sprite, heap))
    /\ UNCHANGED <<ret, heap, plan, first>>

NextRegenerate == Load \/ Save \/ SaveAgain

SpecRegenerate == InitRegenerate /\ [][NextRegenerate]_vars

\* C30: a well-formed file loads, what save writes for its document loads
\* again, and the file save writes for that document has the same bytes as
\* the file it was loaded from.
C30_Regenerated ==
    /\ pc \notin {"load_failed", "reload_failed", "resave_failed"}
    /\ pc = "resaved" => disk["again"].bytes = disk["out"].bytes

\* a file with two records, one in two slots, and two animations has been
\* written a second time
C30_Witness ==
    /\ pc = "resaved"
    /\ Len(sprite.images) = 2
    /\ Len(sprite.animation_index.items) = 2
    /\ Len(disk["again"].bytes) > 100

====
